---------------------------- MODULE Spec2Model ----------------------------
(***************************************************************************)
(* A model of PALMA, a tropical (semiring) linear-algebra library in C:    *)
(* the semiring kernel (palma_zero, palma_one, palma_add, palma_mul), the  *)
(* dense matrix engine (closure), the spectral engine (Karp eigenvalue,    *)
(* power-iteration eigenvector) and the discrete-event scheduler.          *)
(*                                                                         *)
(* palma_val_t is int32_t.  The model keeps the 32-bit range: every sum    *)
(* the C code forms in int64_t is compared against the 32-bit bounds       *)
(* before it is narrowed, exactly where the code does so.                  *)
(***************************************************************************)
EXTENDS Integers, Sequences, FiniteSets, TLC

VARIABLES
    kernel,     \* test driver of the semiring kernel: operands, call made, results
    dense,      \* a dense matrix under construction and the results of closure
    spectral,   \* a dense matrix and the results of eigenvalue / eigenvector
    sched,      \* a palma_scheduler_t object and the result of the last call on it
    sparse,     \* a palma_sparse_t object and the results of the calls on it
    api,        \* a call of a handle-returning operation: its arguments and its result
    heap,       \* buffers on the heap and the matrix structs that point at them
    threads,    \* two threads of one process calling the library on their own handles
    loop,       \* one call of an iterative routine, taken pass by pass
    g_last_error \* the thread-local last-error slot of the calling thread

vars == <<kernel, dense, spectral, sched, sparse, api, heap, threads, loop, g_last_error>>

(***************************************************************************)
(* Constants of palma.h                                                    *)
(***************************************************************************)
PALMA_POS_INF == 2147483647
PALMA_NEG_INF == (-PALMA_POS_INF) - 1

PALMA_MAXPLUS == 0
PALMA_MINPLUS == 1
PALMA_MAXMIN  == 2
PALMA_MINMAX  == 3
PALMA_BOOLEAN == 4

Semirings == {PALMA_MAXPLUS, PALMA_MINPLUS, PALMA_MAXMIN, PALMA_MINMAX, PALMA_BOOLEAN}
Additive  == {PALMA_MAXPLUS, PALMA_MINPLUS}

PALMA_SUCCESS           == 0
PALMA_ERR_NULL_PTR == -1
PALMA_ERR_INVALID_DIM == -2
PALMA_ERR_OUT_OF_MEMORY == -3
PALMA_ERR_INVALID_ARG == -4
PALMA_ERR_NOT_SQUARE == -5
PALMA_ERR_NOT_CONVERGED == -6
PALMA_ERR_INDEX_BOUNDS  == -11
PALMA_ERR_UNSUPPORTED == -13

PALMA_DEFAULT_MAX_ITER == 1000
PALMA_DEFAULT_TOL      == 1

(***************************************************************************)
(* int64_t sum = (int64_t)a + (int64_t)b compared with the 32-bit bounds.  *)
(* The comparisons are arranged so that no intermediate value leaves the   *)
(* 32-bit range (they are equivalent to sum > INT32_MAX, sum < INT32_MIN). *)
(***************************************************************************)
SumAboveMax(a, b) == a > 0 /\ b > PALMA_POS_INF - a
SumBelowMin(a, b) == a < 0 /\ b < PALMA_NEG_INF - a

(***************************************************************************)
(* SEMIRING OPERATIONS                                                     *)
(***************************************************************************)
palma_zero(s) ==
    CASE s = PALMA_MAXPLUS -> PALMA_NEG_INF
      [] s = PALMA_MINPLUS -> PALMA_POS_INF
      [] s = PALMA_MAXMIN  -> PALMA_NEG_INF
      [] s = PALMA_MINMAX  -> PALMA_POS_INF
      [] s = PALMA_BOOLEAN -> 0
      [] OTHER             -> PALMA_NEG_INF

\* a slip in the table of identities: e of (max,min) given as 0
palma_one_mut(s) ==
    CASE s = PALMA_MAXPLUS -> 0
      [] s = PALMA_MINPLUS -> 0
      [] s = PALMA_MAXMIN  -> 0
      [] s = PALMA_MINMAX  -> PALMA_NEG_INF
      [] s = PALMA_BOOLEAN -> 1
      [] OTHER             -> 0

palma_one(s) ==
    CASE s = PALMA_MAXPLUS -> 0
      [] s = PALMA_MINPLUS -> 0
      [] s = PALMA_MAXMIN  -> PALMA_POS_INF
      [] s = PALMA_MINMAX  -> PALMA_NEG_INF
      [] s = PALMA_BOOLEAN -> 1
      [] OTHER             -> 0

\* a slip in the Boolean case: exclusive or instead of or
palma_add_mut(a, b, s) ==
    CASE s \in {PALMA_MAXPLUS, PALMA_MAXMIN} -> IF a > b THEN a ELSE b
      [] s \in {PALMA_MINPLUS, PALMA_MINMAX} -> IF a < b THEN a ELSE b
      [] s = PALMA_BOOLEAN -> IF (a # 0) # (b # 0) THEN 1 ELSE 0
      [] OTHER -> IF a > b THEN a ELSE b

palma_add(a, b, s) ==
    CASE s \in {PALMA_MAXPLUS, PALMA_MAXMIN} -> IF a > b THEN a ELSE b
      [] s \in {PALMA_MINPLUS, PALMA_MINMAX} -> IF a < b THEN a ELSE b
      [] s = PALMA_BOOLEAN -> IF (a # 0) \/ (b # 0) THEN 1 ELSE 0
      [] OTHER -> IF a > b THEN a ELSE b

\* (palma_val_t)(a + b) without the widening: the sum wraps around modulo 2^32
WrapSum(a, b) ==
    IF SumAboveMax(a, b) THEN (a + PALMA_NEG_INF) + (b + PALMA_NEG_INF)
    ELSE IF SumBelowMin(a, b) THEN (a - PALMA_NEG_INF) + (b - PALMA_NEG_INF)
    ELSE a + b

\* the additive case without the clamp of the 64-bit sum
palma_mul_mut(a, b, s) ==
    CASE s \in Additive ->
            IF a = PALMA_NEG_INF \/ b = PALMA_NEG_INF THEN PALMA_NEG_INF
            ELSE IF a = PALMA_POS_INF \/ b = PALMA_POS_INF THEN PALMA_POS_INF
            ELSE WrapSum(a, b)
      [] s = PALMA_MAXMIN  -> IF a < b THEN a ELSE b
      [] s = PALMA_MINMAX  -> IF a > b THEN a ELSE b
      [] s = PALMA_BOOLEAN -> IF (a # 0) /\ (b # 0) THEN 1 ELSE 0
      [] OTHER -> WrapSum(a, b)

palma_mul(a, b, s) ==
    CASE s \in Additive ->
            IF a = PALMA_NEG_INF \/ b = PALMA_NEG_INF THEN PALMA_NEG_INF
            ELSE IF a = PALMA_POS_INF \/ b = PALMA_POS_INF THEN PALMA_POS_INF
            ELSE IF SumAboveMax(a, b) THEN PALMA_POS_INF
            ELSE IF SumBelowMin(a, b) THEN PALMA_NEG_INF
            ELSE a + b
      [] s = PALMA_MAXMIN  -> IF a < b THEN a ELSE b
      [] s = PALMA_MINMAX  -> IF a > b THEN a ELSE b
      [] s = PALMA_BOOLEAN -> IF (a # 0) /\ (b # 0) THEN 1 ELSE 0
      [] OTHER -> WrapSum(a, b)

(***************************************************************************)
(* DENSE MATRIX: rows, cols, a row stride and a row-major buffer of        *)
(* rows * stride values; element (i, j) is data[i * stride + j].           *)
(***************************************************************************)
ALIGN_STRIDE(cols) == ((cols + 3) \div 4) * 4

palma_matrix_get(mat, row, col) == mat.data[row * mat.stride + col]

palma_matrix_set(mat, row, col, val) ==
    [mat EXCEPT !.data[row * mat.stride + col] = val]

\* The buffer of a fresh matrix is not initialised.  Every caller writes each
\* element of the rows * cols grid before anything reads it, and nothing reads
\* the padding of a row, so the buffer is shown holding 0 until written.
palma_matrix_create(rows, cols) ==
    [cols |-> cols,
     data |-> [p \in 0 .. (rows * ALIGN_STRIDE(cols)) - 1 |-> 0],
     stride |-> ALIGN_STRIDE(cols),
     rows |-> rows]

palma_matrix_create_zero(rows, cols, s) ==
    [palma_matrix_create(rows, cols) EXCEPT
        !.data = [p \in 0 .. (rows * ALIGN_STRIDE(cols)) - 1 |-> palma_zero(s)]]

palma_matrix_create_identity(n, s) ==
    [palma_matrix_create_zero(n, n, s) EXCEPT
        !.data = [p \in 0 .. (n * ALIGN_STRIDE(n)) - 1 |->
                    IF p \div ALIGN_STRIDE(n) = p % ALIGN_STRIDE(n)
                    THEN palma_one(s) ELSE palma_zero(s)]]

\* memcpy of cols values per row from the source's rows
palma_matrix_clone(src) ==
    [palma_matrix_create(src.rows, src.cols) EXCEPT
        !.data = [p \in 0 .. (src.rows * ALIGN_STRIDE(src.cols)) - 1 |->
                    IF p % ALIGN_STRIDE(src.cols) < src.cols
                    THEN src.data[(p \div ALIGN_STRIDE(src.cols)) * src.stride
                                  + (p % ALIGN_STRIDE(src.cols))]
                    ELSE 0]]

(***************************************************************************)
(* palma_matvec: y[i] = (+)_j A[i][j] (x) x[j], j ascending from zero(s)   *)
(***************************************************************************)
RECURSIVE MatvecRow(_, _, _, _, _, _)
MatvecRow(A, x, i, j, sum, s) ==
    IF j = A.cols THEN sum
    ELSE MatvecRow(A, x, i, j + 1,
                   palma_add(sum, palma_mul(palma_matrix_get(A, i, j), x[j], s), s), s)

palma_matvec(A, x, s) ==
    [i \in 0 .. A.rows - 1 |-> MatvecRow(A, x, i, 0, palma_zero(s), s)]

(***************************************************************************)
(* palma_matrix_closure: D = clone(A), one (+)-added to the diagonal, then *)
(* the Floyd-Warshall loop nest k, i, j updating D in place.               *)
(***************************************************************************)
RECURSIVE ClosureAddIdentity(_, _, _)
ClosureAddIdentity(D, i, s) ==
    IF i = D.rows THEN D
    ELSE ClosureAddIdentity(
            palma_matrix_set(D, i, i,
                palma_add(palma_matrix_get(D, i, i), palma_one(s), s)),
            i + 1, s)

\* the loop body without the (+) with the entry already there
ClosureRelax_mut(D, k, i, j, s) ==
    palma_matrix_set(D, i, j,
        palma_mul(palma_matrix_get(D, i, k), palma_matrix_get(D, k, j), s))

\* one pass of the loop body at (k, i, j)
ClosureRelax(D, k, i, j, s) ==
    palma_matrix_set(D, i, j,
        palma_add(palma_matrix_get(D, i, j),
                  palma_mul(palma_matrix_get(D, i, k), palma_matrix_get(D, k, j), s),
                  s))

\* the loop nest, t counting the passes: k = t / n^2, i = (t / n) % n, j = t % n
RECURSIVE ClosureLoop(_, _, _)
ClosureLoop(D, t, s) ==
    IF t = D.rows * D.rows * D.rows THEN D
    ELSE ClosureLoop(
            ClosureRelax(D, t \div (D.rows * D.rows), (t \div D.rows) % D.rows,
                         t % D.rows, s),
            t + 1, s)

\* the diagonal step left out
palma_matrix_closure_mut(A, s) == ClosureLoop(palma_matrix_clone(A), 0, s)

palma_matrix_closure(A, s) ==
    ClosureLoop(ClosureAddIdentity(palma_matrix_clone(A), 0, s), 0, s)

(***************************************************************************)
(* palma_eigenvalue: Karp's table D[k][v], k = 0 .. n, then the maximum    *)
(* over v of the minimum over k of (D[n][v] - D[k][v]) / (n - k).          *)
(***************************************************************************)
\* (palma_val_t)(x - y) of a difference formed in 64 bits: modulo 2^32
WrapDiff(x, y) ==
    IF y = PALMA_NEG_INF
    THEN IF x >= 0 THEN x + PALMA_NEG_INF ELSE (x + 1) + PALMA_POS_INF
    ELSE WrapSum(x, -y)

\* the quotient rounded down instead of toward zero
MeanCast_mut(x, y, d) ==
    IF d = 1 THEN WrapDiff(x, y)
    ELSE ((x \div d) - (y \div d)) + (((x % d) - (y % d)) \div d)

\* (palma_val_t)(((int64_t)x - (int64_t)y) / d) for 1 <= d: with x = d*qx + rx and
\* y = d*qy + ry the quotient is formed from qx - qy, which stays in 32 bits for
\* d >= 2; for d = 1 the 64-bit difference is narrowed to 32 bits
MeanCast(x, y, d) ==
    IF d = 1 THEN WrapDiff(x, y)
    ELSE LET fq == ((x \div d) - (y \div d)) + (((x % d) - (y % d)) \div d)
             rm == ((x % d) - (y % d)) % d
         IN  IF x < y /\ rm # 0 THEN fq + 1 ELSE fq

\* best over u of D[k-1][u] (x) A[u][v], skipping absent edges and absent paths
RECURSIVE KarpBest(_, _, _, _, _, _)
KarpBest(A, prev, v, u, best, s) ==
    IF u = A.rows THEN best
    ELSE KarpBest(A, prev, v, u + 1,
            IF palma_matrix_get(A, u, v) # palma_zero(s) /\ prev[u] # palma_zero(s)
            THEN palma_add(best, palma_mul(prev[u], palma_matrix_get(A, u, v), s), s)
            ELSE best,
            s)

\* the table as a sequence: KarpTable(A, k, s)[m + 1] is the row D[m], m = 0 .. k
RECURSIVE KarpTable(_, _, _)
KarpTable(A, k, s) ==
    IF k = 0 THEN << [v \in 0 .. A.rows - 1 |-> palma_one(s)] >>
    ELSE LET T == KarpTable(A, k - 1, s)
         IN  Append(T, [v \in 0 .. A.rows - 1 |->
                          KarpBest(A, T[k], v, 0, palma_zero(s), s)])

\* the inner loop over k for one v, starting from min_for_v = POS_INF
RECURSIVE KarpMinForV(_, _, _, _, _)
KarpMinForV(T, v, k, min_for_v, s) ==
    LET n == Len(T) - 1
        mean == IF s \in Additive THEN MeanCast(T[n + 1][v], T[k + 1][v], n - k)
                ELSE 0
    IN  IF k = n THEN min_for_v
        ELSE KarpMinForV(T, v, k + 1,
                IF T[k + 1][v] # palma_zero(s) /\ mean < min_for_v
                THEN mean ELSE min_for_v,
                s)

\* the outer loop over v, starting from max_mean = NEG_INF
RECURSIVE KarpMaxMean(_, _, _, _)
KarpMaxMean(T, v, max_mean, s) ==
    LET n == Len(T) - 1
        min_for_v == KarpMinForV(T, v, 0, PALMA_POS_INF, s)
    IN  IF v = n THEN max_mean
        ELSE KarpMaxMean(T, v + 1,
                IF T[n + 1][v] # palma_zero(s)
                   /\ min_for_v # PALMA_POS_INF /\ min_for_v > max_mean
                THEN min_for_v ELSE max_mean,
                s)

palma_eigenvalue(A, s) ==
    KarpMaxMean(KarpTable(A, A.rows, s), 0, PALMA_NEG_INF, s)

(***************************************************************************)
(* palma_eigenvector: power iteration from the all-e vector, lambda taken  *)
(* off every component that is not zero(s), until y = x or max_iter steps. *)
(* The result is [ret, vec, lambda].  y[i] -= lambda is a 32-bit           *)
(* subtraction; the inputs of the model keep it inside the 32-bit range.   *)
(***************************************************************************)
EigNormalize(y, lambda, s) ==
    IF s \in Additive
    THEN [i \in DOMAIN y |-> IF y[i] # palma_zero(s) THEN y[i] - lambda ELSE y[i]]
    ELSE y

\* the convergence test stopping at the first component
EigConverged_mut(y, x) == y[0] = x[0]

\* converged: no component of y differs from x
EigConverged(y, x) == \A i \in DOMAIN y : y[i] = x[i]

\* one pass of the loop body: y = A (x) x, normalised
EigStep(A, x, lambda, s) == EigNormalize(palma_matvec(A, x, s), lambda, s)

RECURSIVE EigLoop(_, _, _, _, _, _)
EigLoop(A, x, lambda, s, iter, max_iter) ==
    IF iter >= max_iter
    THEN [lambda |-> lambda, ret |-> PALMA_ERR_NOT_CONVERGED, vec |-> x]
    ELSE LET y == EigStep(A, x, lambda, s)
         IN  IF EigConverged(y, x)
             THEN [lambda |-> lambda, ret |-> PALMA_SUCCESS, vec |-> y]
             ELSE EigLoop(A, y, lambda, s, iter + 1, max_iter)

palma_eigenvector(A, s, max_iter) ==
    LET lambda == palma_eigenvalue(A, s)
        iters  == IF max_iter = 0 THEN PALMA_DEFAULT_MAX_ITER ELSE max_iter
    IN  IF lambda = PALMA_NEG_INF
        THEN [lambda |-> lambda,
              ret |-> PALMA_ERR_NOT_CONVERGED,
              vec |-> [i \in 0 .. A.rows - 1 |-> palma_zero(s)]]
        ELSE EigLoop(A, [i \in 0 .. A.rows - 1 |-> palma_one(s)],
                     lambda, s, 0, iters)

(***************************************************************************)
(* palma_critical_nodes: the nodes of the self-loops and 2-cycles whose    *)
(* mean is at least lambda - PALMA_DEFAULT_TOL.  The result is             *)
(* [ret, critical_nodes].                                                  *)
(***************************************************************************)
\* C integer division p / q for q > 0: the quotient truncated toward zero
CDiv(p, q) == IF p >= 0 THEN p \div q ELSE -((-p) \div q)

\* the test made for the pair (i, j): both edges present and the 2-cycle mean
\* within the tolerance of lambda
CriticalPair(A, i, j, lambda, s) ==
    LET a_ij == palma_matrix_get(A, i, j)
        a_ji == palma_matrix_get(A, j, i)
    IN  /\ a_ij # palma_zero(s) /\ a_ji # palma_zero(s)
        /\ s \in Additive
        /\ CDiv(palma_mul(a_ij, a_ji, s), 2) >= lambda - PALMA_DEFAULT_TOL

\* the test made for the self-loop at i
CriticalLoop(A, i, lambda, s) ==
    /\ palma_matrix_get(A, i, i) # palma_zero(s)
    /\ palma_matrix_get(A, i, i) >= lambda - PALMA_DEFAULT_TOL

\* critical_nodes after the loop over i and j: node k is marked by every pair
\* (i, j) it belongs to that passes the test, and by its own self-loop
CriticalMarks(A, lambda, s) ==
    [k \in 0 .. A.rows - 1 |->
        IF \/ \E i \in 0 .. A.rows - 1, j \in 0 .. A.rows - 1 :
                 k \in {i, j} /\ CriticalPair(A, i, j, lambda, s)
           \/ CriticalLoop(A, k, lambda, s)
        THEN 1 ELSE 0]

palma_critical_nodes(A, s) ==
    LET lambda == palma_eigenvalue(A, s)
        marks  == CriticalMarks(A, lambda, s)
    IN  IF lambda = PALMA_NEG_INF
        THEN [ret |-> 0, critical_nodes |-> [k \in 0 .. A.rows - 1 |-> 0]]
        ELSE [ret |-> Cardinality({k \in 0 .. A.rows - 1 : marks[k] # 0}),
              critical_nodes |-> marks]

(***************************************************************************)
(* The scheduler: a system matrix with A[to][from] = duration, the input   *)
(* vector b of ready times and the state vector x of completion times.     *)
(* The operations that return an error code yield [ret, sched].            *)
(***************************************************************************)
palma_scheduler_create(n_tasks, use_maxplus) ==
    LET s == IF use_maxplus THEN PALMA_MAXPLUS ELSE PALMA_MINPLUS
    IN  [n_tasks  |-> n_tasks,
         semiring |-> s,
         system   |-> palma_matrix_create_zero(n_tasks, n_tasks, s),
         state    |-> [i \in 0 .. n_tasks - 1 |-> palma_zero(s)],
         input    |-> [i \in 0 .. n_tasks - 1 |-> palma_zero(s)]]

\* the duration stored at A[from][to] instead of A[to][from]
palma_scheduler_add_constraint_mut(S, from, to, duration) ==
    IF from >= S.n_tasks \/ to >= S.n_tasks
    THEN [sched |-> S, ret |-> PALMA_ERR_INDEX_BOUNDS]
    ELSE LET current == palma_matrix_get(S.system, from, to)
             updated == palma_add(current, duration, S.semiring)
         IN  [sched |-> [S EXCEPT !.system = palma_matrix_set(S.system, from, to, updated)],
              ret |-> PALMA_SUCCESS]

palma_scheduler_add_constraint(S, from, to, duration) ==
    IF from >= S.n_tasks \/ to >= S.n_tasks
    THEN [sched |-> S, ret |-> PALMA_ERR_INDEX_BOUNDS]
    ELSE LET current == palma_matrix_get(S.system, to, from)
             updated == palma_add(current, duration, S.semiring)
         IN  [sched |-> [S EXCEPT !.system = palma_matrix_set(S.system, to, from, updated)],
              ret |-> PALMA_SUCCESS]

\* the ready time joined into b alone: x[task] is left as it was
palma_scheduler_set_ready_time_mut(S, task, ready_time) ==
    IF task >= S.n_tasks
    THEN [sched |-> S, ret |-> PALMA_ERR_INDEX_BOUNDS]
    ELSE [sched |-> [S EXCEPT
                       !.input[task] = palma_add(S.input[task], ready_time, S.semiring)],
          ret |-> PALMA_SUCCESS]

palma_scheduler_set_ready_time(S, task, ready_time) ==
    IF task >= S.n_tasks
    THEN [sched |-> S, ret |-> PALMA_ERR_INDEX_BOUNDS]
    ELSE [sched |-> [S EXCEPT
                       !.input[task] = palma_add(S.input[task], ready_time, S.semiring),
                       !.state[task] = palma_add(S.state[task], ready_time, S.semiring)],
          ret |-> PALMA_SUCCESS]

\* a single pass where max_iter = 0 asks for n_tasks passes
SolveIters_mut(S, max_iter) == IF max_iter = 0 THEN 1 ELSE max_iter

\* if (max_iter == 0) max_iter = n_tasks
SolveIters(S, max_iter) == IF max_iter = 0 THEN S.n_tasks ELSE max_iter

\* one pass of the loop body: x[i] = (A (x) prev)[i] (+) b[i] (+) prev[i]
SolveStep(S, prev) ==
    LET temp == palma_matvec(S.system, prev, S.semiring)
    IN  [i \in 0 .. S.n_tasks - 1 |->
           palma_add(palma_add(temp[i], S.input[i], S.semiring), prev[i], S.semiring)]

\* the convergence test stopping at the first component
SolveConverged_mut(x, prev) == x[0] = prev[0]

\* converged: no component of the new state differs from prev
SolveConverged(x, prev) == \A i \in DOMAIN x : x[i] = prev[i]

\* the loop from pass iter on; the result is [ret, state]
RECURSIVE SolveLoop(_, _, _, _)
SolveLoop(S, prev, iter, max_iter) ==
    IF iter >= max_iter
    THEN [ret |-> max_iter, state |-> prev]
    ELSE LET x == SolveStep(S, prev)
         IN  IF SolveConverged(x, prev)
             THEN [ret |-> iter + 1, state |-> x]
             ELSE SolveLoop(S, x, iter + 1, max_iter)

\* the result is [ret, sched]: the number of passes made and the scheduler after them
palma_scheduler_solve(S, max_iter) ==
    LET r == SolveLoop(S, S.state, 0, SolveIters(S, max_iter))
    IN  [sched |-> [S EXCEPT !.state = r.state], ret |-> r.ret]

palma_scheduler_get_completion(S, task) ==
    IF task >= S.n_tasks THEN PALMA_NEG_INF ELSE S.state[task]

\* the scan for the task with the largest completion time, from task i on:
\* if (state[i] > max_time) { max_time = state[i]; end_task = i; }
RECURSIVE CriticalEndTask(_, _, _, _)
CriticalEndTask(S, i, max_time, end_task) ==
    IF i >= S.n_tasks THEN end_task
    ELSE IF S.state[i] > max_time THEN CriticalEndTask(S, i + 1, S.state[i], i)
    ELSE CriticalEndTask(S, i + 1, max_time, end_task)

\* the inner loop from j on: the first j with an edge into current whose
\* completion time extended by the edge gives that of current; n_tasks if none
RECURSIVE CriticalPredecessor(_, _, _)
CriticalPredecessor(S, current, j) ==
    IF j >= S.n_tasks THEN S.n_tasks
    ELSE LET edge == palma_matrix_get(S.system, current, j)
         IN  IF /\ edge # palma_zero(S.semiring)
                /\ palma_mul(S.state[j], edge, S.semiring) = S.state[current]
             THEN j
             ELSE CriticalPredecessor(S, current, j + 1)

\* while (len < n_tasks): temp_path holds the chain from the end task backwards
RECURSIVE CriticalBacktrack(_, _)
CriticalBacktrack(S, temp_path) ==
    IF Len(temp_path) >= S.n_tasks THEN temp_path
    ELSE LET current     == temp_path[Len(temp_path)]
             predecessor == CriticalPredecessor(S, current, 0)
         IN  IF predecessor = S.n_tasks \/ predecessor = current THEN temp_path
             ELSE CriticalBacktrack(S, Append(temp_path, predecessor))

\* the result is [ret, path, err]: path[i] = temp_path[len - 1 - i] for i < out_len,
\* path being the entries written, in the order of their indices
palma_scheduler_critical_path(S, max_len) ==
    IF max_len = 0
    THEN [ret |-> -1, path |-> <<>>, err |-> PALMA_ERR_NULL_PTR]
    ELSE LET temp_path == CriticalBacktrack(S, <<CriticalEndTask(S, 0, PALMA_NEG_INF, 0)>>)
             len       == Len(temp_path)
             out_len   == IF len < max_len THEN len ELSE max_len
         IN  [ret |-> out_len,
              path |-> [m \in 1 .. out_len |-> temp_path[len - m + 1]],
              err |-> PALMA_SUCCESS]

(***************************************************************************)
(* Sparse matrices in CSR form: [rows, cols, nnz, capacity, semiring,      *)
(* values, col_idx, row_ptr].  values and col_idx are held for the cells   *)
(* 0 .. nnz-1; the cells from nnz up to capacity are allocated but hold    *)
(* indeterminate or stale data that no operation reads.  Operations that   *)
(* return an error code yield [ret, sp].                                   *)
(***************************************************************************)
palma_sparse_create(rows, cols, capacity, s) ==
    [cols |-> cols,
     rows |-> rows,
     semiring |-> s,
     capacity |-> IF capacity > 0 THEN capacity ELSE 16,
     nnz |-> 0,
     values |-> [k \in {} |-> 0],
     col_idx |-> [k \in {} |-> 0],
     row_ptr |-> [r \in 0 .. rows |-> 0]]

\* the row-major scan of palma_sparse_from_dense from cell p = i * cols + j on:
\* acc is [values, col_idx, row_ptr, idx]
RECURSIVE FromDenseScan(_, _, _, _)
FromDenseScan(M, s, p, acc) ==
    IF p = M.rows * M.cols THEN acc
    ELSE LET i    == p \div M.cols
             j    == p % M.cols
             val  == palma_matrix_get(M, i, j)
             acc1 == IF j = 0 THEN [acc EXCEPT !.row_ptr[i] = acc.idx] ELSE acc
         IN  FromDenseScan(M, s, p + 1,
                IF val # palma_zero(s)
                THEN [acc1 EXCEPT
                        !.values  = [k \in 0 .. acc.idx |->
                                       IF k = acc.idx THEN val ELSE acc.values[k]],
                        !.col_idx = [k \in 0 .. acc.idx |->
                                       IF k = acc.idx THEN j ELSE acc.col_idx[k]],
                        !.idx     = acc.idx + 1]
                ELSE acc1)

palma_sparse_from_dense(M, s) ==
    LET nnz == Cardinality({c \in (0 .. M.rows - 1) \X (0 .. M.cols - 1) :
                               palma_matrix_get(M, c[1], c[2]) # palma_zero(s)})
        sp  == palma_sparse_create(M.rows, M.cols, nnz, s)
        acc == FromDenseScan(M, s, 0,
                  [values |-> sp.values, col_idx |-> sp.col_idx,
                   row_ptr |-> sp.row_ptr, idx |-> 0])
    IN  [sp EXCEPT !.values = acc.values, !.col_idx = acc.col_idx,
                   !.row_ptr = [acc.row_ptr EXCEPT ![M.rows] = acc.idx],
                   !.nnz = acc.idx]

\* the loops of palma_sparse_to_dense from row i, cell k on
RECURSIVE ToDenseLoop(_, _, _, _)
ToDenseLoop(sp, D, i, k) ==
    IF i = sp.rows THEN D
    ELSE IF k < sp.row_ptr[i + 1]
         THEN ToDenseLoop(sp, palma_matrix_set(D, i, sp.col_idx[k], sp.values[k]),
                          i, k + 1)
         ELSE IF i + 1 = sp.rows THEN D
              ELSE ToDenseLoop(sp, D, i + 1, sp.row_ptr[i + 1])

palma_sparse_to_dense(sp) ==
    ToDenseLoop(sp, palma_matrix_create_zero(sp.rows, sp.cols, sp.semiring),
                0, sp.row_ptr[0])

\* a matrix created with capacity nnz, then memcpy of the nnz stored cells and of
\* the rows + 1 row pointers
palma_sparse_clone(src) ==
    [palma_sparse_create(src.rows, src.cols, src.nnz, src.semiring) EXCEPT
        !.values = src.values, !.col_idx = src.col_idx, !.row_ptr = src.row_ptr,
        !.nnz = src.nnz]

\* sparse_ensure_capacity: the capacity doubled until it holds needed cells
RECURSIVE GrowCapacity(_, _)
GrowCapacity(new_cap, needed) ==
    IF new_cap < needed THEN GrowCapacity(new_cap * 2, needed) ELSE new_cap

sparse_ensure_capacity(sp, needed) ==
    IF needed <= sp.capacity THEN sp
    ELSE [sp EXCEPT !.capacity = GrowCapacity(sp.capacity * 2, needed)]

\* a binary search with the two halves exchanged: the lower half is searched when
\* col_idx[mid] < col
RECURSIVE SparseSearch_mut(_, _, _, _)
SparseSearch_mut(sp, start, end, col) ==
    IF start >= end THEN palma_zero(sp.semiring)
    ELSE LET mid == start + ((end - start) \div 2)
         IN  IF sp.col_idx[mid] = col THEN sp.values[mid]
             ELSE IF sp.col_idx[mid] < col THEN SparseSearch_mut(sp, start, mid, col)
             ELSE SparseSearch_mut(sp, mid + 1, end, col)

\* while (start < end): the binary search of palma_sparse_get in the cells
\* start .. end - 1 of one row
RECURSIVE SparseSearch(_, _, _, _)
SparseSearch(sp, start, end, col) ==
    IF start >= end THEN palma_zero(sp.semiring)
    ELSE LET mid == start + ((end - start) \div 2)
         IN  IF sp.col_idx[mid] = col THEN sp.values[mid]
             ELSE IF sp.col_idx[mid] < col THEN SparseSearch(sp, mid + 1, end, col)
             ELSE SparseSearch(sp, start, mid, col)

palma_sparse_get(sp, row, col) ==
    IF row >= sp.rows \/ col >= sp.cols THEN palma_zero(sp.semiring)
    ELSE SparseSearch(sp, sp.row_ptr[row], sp.row_ptr[row + 1], col)

\* while (pos < end && col_idx[pos] < col) pos++
RECURSIVE SparseFindPos(_, _, _, _)
SparseFindPos(sp, pos, end, col) ==
    IF pos < end /\ sp.col_idx[pos] < col
    THEN SparseFindPos(sp, pos + 1, end, col) ELSE pos

\* the row pointer of row + 1 alone incremented
SparseInsert_mut(sp, row, pos, col, val) ==
    [sp EXCEPT
       !.values  = [k \in 0 .. sp.nnz |->
                      IF k < pos THEN sp.values[k]
                      ELSE IF k = pos THEN val ELSE sp.values[k - 1]],
       !.col_idx = [k \in 0 .. sp.nnz |->
                      IF k < pos THEN sp.col_idx[k]
                      ELSE IF k = pos THEN col ELSE sp.col_idx[k - 1]],
       !.row_ptr = [r \in 0 .. sp.rows |->
                      IF r = row + 1 THEN sp.row_ptr[r] + 1 ELSE sp.row_ptr[r]],
       !.nnz     = sp.nnz + 1]

\* the cells from pos on shifted up by one, the new cell written at pos, the row
\* pointers after row incremented
SparseInsert(sp, row, pos, col, val) ==
    [sp EXCEPT
       !.values  = [k \in 0 .. sp.nnz |->
                      IF k < pos THEN sp.values[k]
                      ELSE IF k = pos THEN val ELSE sp.values[k - 1]],
       !.col_idx = [k \in 0 .. sp.nnz |->
                      IF k < pos THEN sp.col_idx[k]
                      ELSE IF k = pos THEN col ELSE sp.col_idx[k - 1]],
       !.row_ptr = [r \in 0 .. sp.rows |->
                      IF r >= row + 1 THEN sp.row_ptr[r] + 1 ELSE sp.row_ptr[r]],
       !.nnz     = sp.nnz + 1]

palma_sparse_set(sp, row, col, val) ==
    IF row >= sp.rows \/ col >= sp.cols
    THEN [ret |-> PALMA_ERR_INDEX_BOUNDS, sp |-> sp]
    ELSE LET end == sp.row_ptr[row + 1]
             pos == SparseFindPos(sp, sp.row_ptr[row], end, col)
         IN  IF pos < end /\ sp.col_idx[pos] = col
             THEN [ret |-> PALMA_SUCCESS, sp |-> [sp EXCEPT !.values[pos] = val]]
             ELSE [ret |-> PALMA_SUCCESS,
                   sp  |-> SparseInsert(sparse_ensure_capacity(sp, sp.nnz + 1),
                                        row, pos, col, val)]

palma_sparse_add_entry(sp, row, col, val) ==
    IF row >= sp.rows \/ col >= sp.cols
    THEN [ret |-> PALMA_ERR_INDEX_BOUNDS, sp |-> sp]
    ELSE palma_sparse_set(sparse_ensure_capacity(sp, sp.nnz + 1), row, col, val)

\* the loops of palma_sparse_compress from row row, cell k on, done in place:
\* acc is [values, col_idx, row_ptr, write_idx, new_row_start]
RECURSIVE CompressLoop(_, _, _, _)
CompressLoop(sp, acc, row, k) ==
    IF row = sp.rows THEN acc
    ELSE IF k < sp.row_ptr[row + 1]
         THEN CompressLoop(sp,
                 IF acc.values[k] # palma_zero(sp.semiring)
                 THEN [acc EXCEPT !.values[acc.write_idx]  = acc.values[k],
                                  !.col_idx[acc.write_idx] = acc.col_idx[k],
                                  !.write_idx = acc.write_idx + 1]
                 ELSE acc,
                 row, k + 1)
         ELSE LET acc1 == [acc EXCEPT !.row_ptr[row] = acc.new_row_start,
                                      !.new_row_start = acc.write_idx]
              IN  IF row + 1 = sp.rows THEN acc1
                  ELSE CompressLoop(sp, acc1, row + 1, acc1.row_ptr[row + 1])

\* row_ptr[rows] left as it was
palma_sparse_compress_mut(sp) ==
    LET acc == CompressLoop(sp,
                  [values |-> sp.values, col_idx |-> sp.col_idx, row_ptr |-> sp.row_ptr,
                   write_idx |-> 0, new_row_start |-> 0],
                  0, sp.row_ptr[0])
    IN  [ret |-> PALMA_SUCCESS,
         sp  |-> [sp EXCEPT
                    !.values  = [k \in 0 .. acc.write_idx - 1 |-> acc.values[k]],
                    !.col_idx = [k \in 0 .. acc.write_idx - 1 |-> acc.col_idx[k]],
                    !.row_ptr = acc.row_ptr,
                    !.nnz     = acc.write_idx]]

palma_sparse_compress(sp) ==
    LET acc == CompressLoop(sp,
                  [values |-> sp.values, col_idx |-> sp.col_idx, row_ptr |-> sp.row_ptr,
                   write_idx |-> 0, new_row_start |-> 0],
                  0, sp.row_ptr[0])
    IN  [ret |-> PALMA_SUCCESS,
         sp  |-> [sp EXCEPT
                    !.values  = [k \in 0 .. acc.write_idx - 1 |-> acc.values[k]],
                    !.col_idx = [k \in 0 .. acc.write_idx - 1 |-> acc.col_idx[k]],
                    !.row_ptr = [acc.row_ptr EXCEPT ![sp.rows] = acc.write_idx],
                    !.nnz     = acc.write_idx]]

\* the inner loop of palma_sparse_matvec over the cells k of one row
RECURSIVE SparseRowSum(_, _, _, _, _)
SparseRowSum(A, x, k, end, sum) ==
    IF k >= end THEN sum
    ELSE SparseRowSum(A, x, k + 1, end,
            palma_add(sum, palma_mul(A.values[k], x[A.col_idx[k]], A.semiring),
                      A.semiring))

palma_sparse_matvec(A, x) ==
    [i \in 0 .. A.rows - 1 |->
        SparseRowSum(A, x, A.row_ptr[i], A.row_ptr[i + 1], palma_zero(A.semiring))]

\* the loop over the cells kb of row k of B: row_vals[j] (+)= a_ik (x) b_kj
RECURSIVE SparseMulAccB(_, _, _, _, _)
SparseMulAccB(B, a_ik, kb, end, row_vals) ==
    IF kb >= end THEN row_vals
    ELSE LET j == B.col_idx[kb]
         IN  SparseMulAccB(B, a_ik, kb + 1, end,
                [row_vals EXCEPT ![j] = palma_add(row_vals[j],
                                           palma_mul(a_ik, B.values[kb], B.semiring),
                                           B.semiring)])

\* the loop over the cells ka of row i of A
RECURSIVE SparseMulAccA(_, _, _, _, _)
SparseMulAccA(A, B, ka, end, row_vals) ==
    IF ka >= end THEN row_vals
    ELSE LET k == A.col_idx[ka]
         IN  SparseMulAccA(A, B, ka + 1, end,
                SparseMulAccB(B, A.values[ka], B.row_ptr[k], B.row_ptr[k + 1], row_vals))

\* the loop storing the accumulated cells of one row that differ from zero(s)
RECURSIVE SparseMulStore(_, _, _)
SparseMulStore(C, row_vals, j) ==
    IF j = C.cols THEN C
    ELSE SparseMulStore(
            IF row_vals[j] # palma_zero(C.semiring)
            THEN LET G == sparse_ensure_capacity(C, C.nnz + 1)
                 IN  [G EXCEPT
                        !.values  = [k \in 0 .. C.nnz |->
                                       IF k = C.nnz THEN row_vals[j] ELSE C.values[k]],
                        !.col_idx = [k \in 0 .. C.nnz |->
                                       IF k = C.nnz THEN j ELSE C.col_idx[k]],
                        !.nnz     = C.nnz + 1]
            ELSE C,
            row_vals, j + 1)

\* the loop over the rows i of A
RECURSIVE SparseMulRows(_, _, _, _)
SparseMulRows(A, B, C, i) ==
    IF i = A.rows THEN [C EXCEPT !.row_ptr[A.rows] = C.nnz]
    ELSE SparseMulRows(A, B,
            SparseMulStore([C EXCEPT !.row_ptr[i] = C.nnz],
               SparseMulAccA(A, B, A.row_ptr[i], A.row_ptr[i + 1],
                             [j \in 0 .. B.cols - 1 |-> palma_zero(A.semiring)]),
               0),
            i + 1)

palma_sparse_mul(A, B) ==
    LET est     == (A.nnz + B.nnz) * 2
        est_nnz == IF est > A.rows * B.cols THEN A.rows * B.cols ELSE est
    IN  SparseMulRows(A, B, palma_sparse_create(A.rows, B.cols, est_nnz, A.semiring), 0)

(***************************************************************************)
(* Matrix product, iteration and the graph algorithms built on the closure *)
(***************************************************************************)
\* the loop over k of palma_matrix_mul_into for the cell (i, j)
RECURSIVE MulCell(_, _, _, _, _, _, _)
MulCell(A, B, i, j, k, sum, s) ==
    IF k = A.cols THEN sum
    ELSE MulCell(A, B, i, j, k + 1,
                 palma_add(sum, palma_mul(palma_matrix_get(A, i, k),
                                          palma_matrix_get(B, k, j), s), s), s)

\* every cell of the rows x cols grid of the fresh C is written
palma_matrix_mul(A, B, s) ==
    LET C == palma_matrix_create(A.rows, B.cols)
    IN  [C EXCEPT !.data = [p \in DOMAIN C.data |->
                              IF p % C.stride < C.cols
                              THEN MulCell(A, B, p \div C.stride, p % C.stride, 0,
                                           palma_zero(s), s)
                              ELSE C.data[p]]]

\* x after n rounds of y = A (x) x; x = y
RECURSIVE palma_iterate(_, _, _, _)
palma_iterate(A, x, n, s) ==
    IF A.rows # A.cols \/ n = 0 THEN x
    ELSE palma_iterate(A, palma_matvec(A, x, s), n - 1, s)

palma_all_pairs_paths(adj, s) == palma_matrix_closure(adj, s)

\* dist set to zero(s) with one(s) at source, then iterated rows times
palma_single_source_paths(adj, source, dist, s) ==
    IF source >= adj.rows THEN [ret |-> PALMA_ERR_INDEX_BOUNDS, dist |-> dist]
    ELSE [ret  |-> PALMA_SUCCESS,
          dist |-> palma_iterate(adj,
                      [i \in 0 .. adj.rows - 1 |->
                         IF i = source THEN palma_one(s) ELSE palma_zero(s)],
                      adj.rows, s)]

\* the closure taken under (max,+)
palma_bottleneck_paths_mut(adj) == palma_matrix_closure(adj, PALMA_MAXPLUS)

palma_bottleneck_paths(adj) == palma_matrix_closure(adj, PALMA_MAXMIN)

\* POS_INF counted as an edge
ReachBoolAdj_mut(adj) ==
    LET B == palma_matrix_create(adj.rows, adj.cols)
    IN  [B EXCEPT !.data = [p \in DOMAIN B.data |->
                              IF p % B.stride < B.cols
                              THEN LET i   == p \div B.stride
                                       j   == p % B.stride
                                       val == palma_matrix_get(adj, i, j)
                                   IN  IF val # PALMA_NEG_INF \/ i = j THEN 1 ELSE 0
                              ELSE B.data[p]]]

\* the Boolean matrix of palma_reachability: 1 on the diagonal and where the
\* entry is neither NEG_INF nor POS_INF, 0 elsewhere
ReachBoolAdj(adj) ==
    LET B == palma_matrix_create(adj.rows, adj.cols)
    IN  [B EXCEPT !.data = [p \in DOMAIN B.data |->
                              IF p % B.stride < B.cols
                              THEN LET i   == p \div B.stride
                                       j   == p % B.stride
                                       val == palma_matrix_get(adj, i, j)
                                   IN  IF \/ (val # PALMA_NEG_INF /\ val # PALMA_POS_INF)
                                          \/ i = j
                                       THEN 1 ELSE 0
                              ELSE B.data[p]]]

palma_reachability(adj) == palma_matrix_closure(ReachBoolAdj(adj), PALMA_BOOLEAN)

\* the closure itself returned, without the product by A
palma_matrix_transitive_closure_mut(A, s) == palma_matrix_closure(A, s)

\* plus = star (x) A for star = palma_matrix_closure(A, s)
palma_matrix_transitive_closure(A, s) ==
    palma_matrix_mul(palma_matrix_closure(A, s), A, s)

\* C[i][j] = A[i][j] (+) B[i][j] over the rows x cols grid of the fresh C
palma_matrix_add(A, B, s) ==
    LET C == palma_matrix_create(A.rows, A.cols)
    IN  [C EXCEPT !.data = [p \in DOMAIN C.data |->
                              IF p % C.stride < C.cols
                              THEN palma_add(palma_matrix_get(A, p \div C.stride, p % C.stride),
                                             palma_matrix_get(B, p \div C.stride, p % C.stride), s)
                              ELSE C.data[p]]]

\* the loop of palma_matrix_power with the bit test n & 1 dropped: result is
\* multiplied by base in every round
RECURSIVE PowerLoop_mut(_, _, _, _)
PowerLoop_mut(result, base, n, s) ==
    IF n = 0 THEN result
    ELSE LET r1 == palma_matrix_mul(result, base, s)
             n1 == n \div 2
         IN  IF n1 > 0 THEN PowerLoop_mut(r1, palma_matrix_mul(base, base, s), n1, s)
             ELSE r1

\* while (n > 0): if (n & 1) result = result (x) base; n >>= 1;
\* if (n > 0) base = base (x) base
RECURSIVE PowerLoop(_, _, _, _)
PowerLoop(result, base, n, s) ==
    IF n = 0 THEN result
    ELSE LET r1 == IF n % 2 = 1 THEN palma_matrix_mul(result, base, s) ELSE result
             n1 == n \div 2
         IN  IF n1 > 0 THEN PowerLoop(r1, palma_matrix_mul(base, base, s), n1, s)
             ELSE r1

palma_matrix_power(A, n, s) ==
    IF n = 0 THEN palma_matrix_create_identity(A.rows, s)
    ELSE PowerLoop(palma_matrix_create_identity(A.rows, s), palma_matrix_clone(A), n, s)

(***************************************************************************)
(* The handle-returning operations with their argument checks and their    *)
(* effect on the last-error slot.  A handle is Null or Handle(obj); a call *)
(* yields [h, err]: the handle returned and the slot after the call.  oom  *)
(* says that the allocations attempted by the call fail.                   *)
(***************************************************************************)
NoObject == <<>>

Null == [null |-> TRUE]

Handle(obj) == [null |-> FALSE, obj |-> obj]

\* PALMA_RETURN_NULL(err)
ReturnNull(err) == [err |-> err, h |-> Null]

call_matrix_create(rows, cols, oom) ==
    IF rows = 0 \/ cols = 0 THEN ReturnNull(PALMA_ERR_INVALID_DIM)
    ELSE IF oom THEN ReturnNull(PALMA_ERR_OUT_OF_MEMORY)
    ELSE [err |-> PALMA_SUCCESS, h |-> Handle(palma_matrix_create(rows, cols))]

call_matrix_create_zero(rows, cols, s, oom) ==
    LET mat == call_matrix_create(rows, cols, oom)
    IN  IF mat.h.null THEN mat
        ELSE [mat EXCEPT !.h = Handle(palma_matrix_create_zero(rows, cols, s))]

call_matrix_create_identity(n, s, oom) ==
    LET mat == call_matrix_create_zero(n, n, s, oom)
    IN  IF mat.h.null THEN mat
        ELSE [mat EXCEPT !.h = Handle(palma_matrix_create_identity(n, s))]

\* data is Null or Handle(buffer)
call_matrix_wrap(data, rows, cols, stride, oom) ==
    IF data.null \/ rows = 0 \/ cols = 0 THEN ReturnNull(PALMA_ERR_INVALID_ARG)
    ELSE IF oom THEN ReturnNull(PALMA_ERR_OUT_OF_MEMORY)
    ELSE [err |-> PALMA_SUCCESS,
          h |-> Handle([cols |-> cols,
                          data |-> data.obj,
                          stride |-> stride,
                          rows |-> rows])]

call_matrix_clone(src, oom) ==
    IF src.null THEN ReturnNull(PALMA_ERR_NULL_PTR)
    ELSE LET dst == call_matrix_create(src.obj.rows, src.obj.cols, oom)
         IN  IF dst.h.null THEN dst
             ELSE [dst EXCEPT !.h = Handle(palma_matrix_clone(src.obj))]

call_matrix_mul(A, B, s, oom) ==
    IF A.null \/ B.null THEN ReturnNull(PALMA_ERR_NULL_PTR)
    ELSE IF A.obj.cols # B.obj.rows THEN ReturnNull(PALMA_ERR_INVALID_DIM)
    ELSE LET C == call_matrix_create(A.obj.rows, B.obj.cols, oom)
         IN  IF C.h.null THEN C
             ELSE [C EXCEPT !.h = Handle(palma_matrix_mul(A.obj, B.obj, s))]

call_matrix_add(A, B, s, oom) ==
    IF A.null \/ B.null THEN ReturnNull(PALMA_ERR_NULL_PTR)
    ELSE IF A.obj.rows # B.obj.rows \/ A.obj.cols # B.obj.cols
         THEN ReturnNull(PALMA_ERR_INVALID_DIM)
    ELSE LET C == call_matrix_create(A.obj.rows, A.obj.cols, oom)
         IN  IF C.h.null THEN C
             ELSE [C EXCEPT !.h = Handle(palma_matrix_add(A.obj, B.obj, s))]

\* every product of the loop succeeds once result and base have been made
call_matrix_power(A, n, s, oom) ==
    IF A.null THEN ReturnNull(PALMA_ERR_NULL_PTR)
    ELSE IF A.obj.rows # A.obj.cols THEN ReturnNull(PALMA_ERR_NOT_SQUARE)
    ELSE IF n = 0 THEN call_matrix_create_identity(A.obj.rows, s, oom)
    ELSE LET result == call_matrix_create_identity(A.obj.rows, s, oom)
             base   == call_matrix_clone(A, oom)
         IN  IF result.h.null \/ base.h.null THEN ReturnNull(PALMA_ERR_OUT_OF_MEMORY)
             ELSE [err |-> base.err, h |-> Handle(palma_matrix_power(A.obj, n, s))]

call_matrix_closure(A, s, oom) ==
    IF A.null THEN ReturnNull(PALMA_ERR_NULL_PTR)
    ELSE IF A.obj.rows # A.obj.cols THEN ReturnNull(PALMA_ERR_NOT_SQUARE)
    ELSE LET D == call_matrix_clone(A, oom)
         IN  IF D.h.null THEN D
             ELSE [D EXCEPT !.h = Handle(palma_matrix_closure(A.obj, s))]

call_matrix_transitive_closure(A, s, oom) ==
    IF A.null THEN ReturnNull(PALMA_ERR_NULL_PTR)
    ELSE IF A.obj.rows # A.obj.cols THEN ReturnNull(PALMA_ERR_NOT_SQUARE)
    ELSE LET star == call_matrix_closure(A, s, oom)
         IN  IF star.h.null THEN star
             ELSE call_matrix_mul(star.h, A, s, oom)

\* bool_adj is created with the shape of adj, then its closure is taken
call_reachability(adj, oom) ==
    IF adj.null THEN ReturnNull(PALMA_ERR_NULL_PTR)
    ELSE LET bool_adj == call_matrix_create(adj.obj.rows, adj.obj.cols, oom)
         IN  IF bool_adj.h.null THEN bool_adj
             ELSE call_matrix_closure(Handle(ReachBoolAdj(adj.obj)), PALMA_BOOLEAN, oom)

call_bottleneck_paths(adj, oom) ==
    IF adj.null THEN ReturnNull(PALMA_ERR_NULL_PTR)
    ELSE call_matrix_closure(adj, PALMA_MAXMIN, oom)

call_sparse_create(rows, cols, capacity, s, oom) ==
    IF rows = 0 \/ cols = 0 THEN ReturnNull(PALMA_ERR_INVALID_DIM)
    ELSE IF oom THEN ReturnNull(PALMA_ERR_OUT_OF_MEMORY)
    ELSE [err |-> PALMA_SUCCESS,
          h |-> Handle(palma_sparse_create(rows, cols, capacity, s))]

call_sparse_from_dense(M, s, oom) ==
    IF M.null THEN ReturnNull(PALMA_ERR_NULL_PTR)
    ELSE LET sp == call_sparse_create(M.obj.rows, M.obj.cols, 0, s, oom)
         IN  IF sp.h.null THEN sp
             ELSE [sp EXCEPT !.h = Handle(palma_sparse_from_dense(M.obj, s))]

call_sparse_to_dense(S, oom) ==
    IF S.null THEN ReturnNull(PALMA_ERR_NULL_PTR)
    ELSE LET M == call_matrix_create_zero(S.obj.rows, S.obj.cols, S.obj.semiring, oom)
         IN  IF M.h.null THEN M
             ELSE [M EXCEPT !.h = Handle(palma_sparse_to_dense(S.obj))]

call_sparse_clone(src, oom) ==
    IF src.null THEN ReturnNull(PALMA_ERR_NULL_PTR)
    ELSE LET dst == call_sparse_create(src.obj.rows, src.obj.cols, src.obj.nnz,
                                       src.obj.semiring, oom)
         IN  IF dst.h.null THEN dst
             ELSE [dst EXCEPT !.h = Handle(palma_sparse_clone(src.obj))]

call_sparse_mul(A, B, oom) ==
    IF A.null \/ B.null THEN ReturnNull(PALMA_ERR_NULL_PTR)
    ELSE IF A.obj.cols # B.obj.rows \/ A.obj.semiring # B.obj.semiring
         THEN ReturnNull(PALMA_ERR_INVALID_DIM)
    ELSE LET C == call_sparse_create(A.obj.rows, B.obj.cols, 0, A.obj.semiring, oom)
         IN  IF C.h.null THEN C
             ELSE [C EXCEPT !.h = Handle(palma_sparse_mul(A.obj, B.obj))]

\* the object itself, palma_matrix_create_zero(n_tasks, n_tasks) and the two
\* vectors are allocated in turn; any of them missing is reported as out of memory
call_scheduler_create(n_tasks, use_maxplus, oom) ==
    IF oom THEN ReturnNull(PALMA_ERR_OUT_OF_MEMORY)
    ELSE LET system == call_matrix_create_zero(n_tasks, n_tasks,
                          IF use_maxplus THEN PALMA_MAXPLUS ELSE PALMA_MINPLUS, FALSE)
         IN  IF system.h.null THEN ReturnNull(PALMA_ERR_OUT_OF_MEMORY)
             ELSE [err |-> PALMA_SUCCESS,
                   h |-> Handle(palma_scheduler_create(n_tasks, use_maxplus))]

(***************************************************************************)
(* Storage.  A matrix struct points at a buffer of the heap; buffers are   *)
(* numbered in the order in which they come to exist.  buffers[b].freed    *)
(* records that free() was called on buffer b.                             *)
(***************************************************************************)
\* buffers is a function on 0 .. n - 1
heap_size(buffers) == Cardinality(DOMAIN buffers)

\* malloc: the next buffer
heap_alloc(buffers, cells) ==
    [b \in 0 .. heap_size(buffers) |->
        IF b < heap_size(buffers) THEN buffers[b] ELSE [cells |-> cells, freed |-> FALSE]]

heap_matrix_get(buffers, mat, row, col) ==
    buffers[mat.data].cells[row * mat.stride + col]

\* palma_matrix_set through the struct: one cell of the buffer it points at
heap_matrix_set(buffers, mat, row, col, val) ==
    [buffers EXCEPT ![mat.data].cells[row * mat.stride + col] = val]

\* palma_matrix_create: a struct owning a new buffer of rows * stride cells
heap_matrix_create(buffers, rows, cols) ==
    [mat |-> [cols |-> cols,
              data |-> heap_size(buffers),
              stride |-> ALIGN_STRIDE(cols),
              rows |-> rows,
              owns_data |-> TRUE],
     buffers |-> heap_alloc(buffers, [p \in 0 .. (rows * ALIGN_STRIDE(cols)) - 1 |-> 0])]

\* palma_matrix_wrap: a struct over the caller's buffer data
heap_matrix_wrap(data, rows, cols, stride) ==
    [cols |-> cols,
     data |-> data,
     stride |-> stride,
     rows |-> rows,
     owns_data |-> FALSE]

\* a shallow copy: the new struct points at the buffer of src
heap_matrix_clone_mut(buffers, src) ==
    [mat |-> [cols |-> src.cols,
              data |-> src.data,
              stride |-> src.stride,
              rows |-> src.rows,
              owns_data |-> TRUE],
     buffers |-> buffers]

\* palma_matrix_clone: a created matrix, then one memcpy of cols cells per row
\* from &src->data[i * src->stride] to palma_matrix_row(dst, i)
heap_matrix_clone(buffers, src) ==
    LET made == heap_matrix_create(buffers, src.rows, src.cols)
        dst  == made.mat
    IN  [mat |-> dst,
         buffers |-> [made.buffers EXCEPT ![dst.data].cells =
                        [p \in DOMAIN made.buffers[dst.data].cells |->
                            IF p % dst.stride < src.cols
                            THEN buffers[src.data].cells[(p \div dst.stride) * src.stride
                                                         + (p % dst.stride)]
                            ELSE 0]]]

\* palma_matrix_destroy: free(mat->data) iff mat->owns_data, then free(mat)
heap_matrix_destroy(buffers, mat) ==
    IF mat.owns_data THEN [buffers EXCEPT ![mat.data].freed = TRUE] ELSE buffers

(***************************************************************************)
(* The semiring kernel under test: operands drawn from the corners of the  *)
(* 32-bit range and from small values, one call sequence per action.       *)
(***************************************************************************)
KernelVals == {PALMA_NEG_INF, PALMA_NEG_INF + 1, -2, -1, 0, 1, 2,
               PALMA_POS_INF - 1, PALMA_POS_INF}

Idle == [pc |-> "idle"]

InitKernel ==
    /\ kernel \in [s : Semirings, a : KernelVals, b : KernelVals, c : KernelVals,
                   pc : {"args"}, r1 : {0}, r2 : {0}]
    /\ dense = Idle
    /\ spectral = Idle
    /\ sched = Idle
    /\ sparse = Idle
    /\ api = Idle
    /\ heap = Idle
    /\ threads = Idle
    /\ loop = Idle
    /\ g_last_error = PALMA_SUCCESS

KernelRest == <<dense, spectral, sched, sparse, api, heap, threads, loop, g_last_error>>

\* mul(a, zero(s), s) and mul(zero(s), a, s)
CallAbsorb ==
    /\ kernel.pc = "args"
    /\ kernel' = [kernel EXCEPT !.pc = "absorb",
                     !.r1 = palma_mul(kernel.a, palma_zero(kernel.s), kernel.s),
                     !.r2 = palma_mul(palma_zero(kernel.s), kernel.a, kernel.s)]
    /\ UNCHANGED KernelRest

\* mul(a, b, s)
CallMul ==
    /\ kernel.pc = "args"
    /\ kernel' = [kernel EXCEPT !.pc = "mul",
                     !.r1 = palma_mul(kernel.a, kernel.b, kernel.s)]
    /\ UNCHANGED KernelRest

\* add(a, zero(s), s) and mul(a, one(s), s)
CallIdentity ==
    /\ kernel.pc = "args"
    /\ kernel' = [kernel EXCEPT !.pc = "identity",
                     !.r1 = palma_add(kernel.a, palma_zero(kernel.s), kernel.s),
                     !.r2 = palma_mul(kernel.a, palma_one(kernel.s), kernel.s)]
    /\ UNCHANGED KernelRest

\* add(a, a, s)
CallIdempotent ==
    /\ kernel.pc = "args"
    /\ kernel' = [kernel EXCEPT !.pc = "idempotent",
                     !.r1 = palma_add(kernel.a, kernel.a, kernel.s)]
    /\ UNCHANGED KernelRest

\* mul(a, add(b, c, s), s) and add(mul(a, b, s), mul(a, c, s), s)
CallDistrib ==
    /\ kernel.pc = "args"
    /\ kernel' = [kernel EXCEPT !.pc = "distrib",
                     !.r1 = palma_mul(kernel.a,
                                      palma_add(kernel.b, kernel.c, kernel.s), kernel.s),
                     !.r2 = palma_add(palma_mul(kernel.a, kernel.b, kernel.s),
                                      palma_mul(kernel.a, kernel.c, kernel.s), kernel.s)]
    /\ UNCHANGED KernelRest

NextKernel == CallAbsorb \/ CallMul \/ CallIdentity \/ CallIdempotent \/ CallDistrib

SpecKernel == InitKernel /\ [][NextKernel]_vars

(***************************************************************************)
(* The closure engine under test: a square matrix of order n is created    *)
(* with palma_matrix_create_zero, filled by palma_matrix_set calls, and    *)
(* palma_matrix_closure is applied to it and then to its own result.       *)
(***************************************************************************)
MaxEntries == 3

Orders == {1, 2, 3}

\* the values stored in a matrix under semiring s: finite weights of both signs
\* under the additive semirings, the unit e = -/+ infinity beside finite capacities
\* under (max,min) and (min,max), truthy values under Boolean
DenseVals(s) ==
    CASE s \in Additive   -> {-2, 0, 3}
      [] s = PALMA_MAXMIN  -> {-2, 3, PALMA_POS_INF}
      [] s = PALMA_MINMAX  -> {PALMA_NEG_INF, -2, 3}
      [] s = PALMA_BOOLEAN -> {1, 3, PALMA_NEG_INF}

\* the cells of the grid that hold something other than zero(s)
StoredCells(A, s) ==
    {c \in (0 .. A.rows - 1) \X (0 .. A.cols - 1) :
        palma_matrix_get(A, c[1], c[2]) # palma_zero(s)}

InitDense ==
    /\ \E n \in Orders, s \in Semirings :
          dense = [s |-> s,
                   A |-> palma_matrix_create_zero(n, n, s),
                   D |-> palma_matrix_create_zero(n, n, s),
                   pc |-> "build",
                   D2 |-> palma_matrix_create_zero(n, n, s)]
    /\ kernel = Idle
    /\ spectral = Idle
    /\ sched = Idle
    /\ sparse = Idle
    /\ api = Idle
    /\ heap = Idle
    /\ threads = Idle
    /\ loop = Idle
    /\ g_last_error = PALMA_SUCCESS

DenseRest == <<kernel, spectral, sched, sparse, api, heap, threads, loop>>

\* palma_matrix_set(A, i, j, v) while the matrix is being filled: each call
\* stores a value other than zero(s) in a cell that still holds zero(s)
MatrixSet(i, j, v) ==
    /\ dense.pc = "build"
    /\ i < dense.A.rows /\ j < dense.A.cols
    /\ v \in DenseVals(dense.s)
    /\ <<i, j>> \notin StoredCells(dense.A, dense.s)
    /\ Cardinality(StoredCells(dense.A, dense.s)) < MaxEntries
    /\ dense' = [dense EXCEPT !.A = palma_matrix_set(dense.A, i, j, v)]
    /\ UNCHANGED <<DenseRest, g_last_error>>

\* D = palma_matrix_closure(A, s); D2 = palma_matrix_closure(D, s)
MatrixClosure ==
    /\ dense.pc = "build"
    /\ LET star == palma_matrix_closure(dense.A, dense.s)
       IN  dense' = [dense EXCEPT !.pc = "closed", !.D = star,
                        !.D2 = palma_matrix_closure(star, dense.s)]
    /\ g_last_error' = PALMA_SUCCESS    \* palma_clear_error in palma_matrix_create
    /\ UNCHANGED DenseRest

NextDense ==
    \/ \E i \in 0 .. 2, j \in 0 .. 2, v \in {PALMA_NEG_INF, -2, 0, 1, 3, PALMA_POS_INF} :
          MatrixSet(i, j, v)
    \/ MatrixClosure

SpecDense == InitDense /\ [][NextDense]_vars

(***************************************************************************)
(* Graphs under test: an adjacency matrix over the background zero(s),     *)
(* filled edge by edge, then handed to one of the graph algorithms.        *)
(***************************************************************************)
MaxEdges == 3

GraphVals(s) ==
    CASE s = PALMA_MAXPLUS -> {-2, 3}
      [] s = PALMA_MINPLUS -> {-2, 0}
      [] s = PALMA_MAXMIN  -> {-2, 3}
      [] s = PALMA_MINMAX  -> {-2, 3}
      [] s = PALMA_BOOLEAN -> {1, PALMA_NEG_INF}

InitGraph ==
    /\ \E n \in Orders, s \in Semirings :
          dense = [s |-> s,
                   A |-> palma_matrix_create_zero(n, n, s),
                   D |-> palma_matrix_create_zero(n, n, s),
                   ret |-> PALMA_SUCCESS,
                   source |-> 0,
                   dist |-> [i \in 0 .. n - 1 |-> 0],
                   pc |-> "build",
                   D2 |-> palma_matrix_create_zero(n, n, s)]
    /\ kernel = Idle
    /\ spectral = Idle
    /\ sched = Idle
    /\ sparse = Idle
    /\ api = Idle
    /\ heap = Idle
    /\ threads = Idle
    /\ loop = Idle
    /\ g_last_error = PALMA_SUCCESS

\* palma_matrix_set(A, i, j, v) while the graph is being built: each call stores
\* a value other than zero(s) in a cell that still holds zero(s)
GraphSet(i, j, v) ==
    /\ dense.pc = "build"
    /\ i < dense.A.rows /\ j < dense.A.cols
    /\ <<i, j>> \notin StoredCells(dense.A, dense.s)
    /\ Cardinality(StoredCells(dense.A, dense.s)) < MaxEdges
    /\ dense' = [dense EXCEPT !.A = palma_matrix_set(dense.A, i, j, v)]
    /\ UNCHANGED <<DenseRest, g_last_error>>

\* ret = palma_single_source_paths(A, source, dist, s);
\* D = palma_all_pairs_paths(A, s)
SingleSourcePaths(source) ==
    /\ dense.pc = "build"
    /\ LET r == palma_single_source_paths(dense.A, source, dense.dist, dense.s)
       IN  dense' = [dense EXCEPT !.pc = "single_source", !.source = source,
                        !.ret = r.ret, !.dist = r.dist,
                        !.D = palma_all_pairs_paths(dense.A, dense.s)]
    /\ g_last_error' = PALMA_SUCCESS    \* palma_clear_error in palma_matrix_create
    /\ UNCHANGED DenseRest

\* D = palma_bottleneck_paths(A)
BottleneckPaths ==
    /\ dense.pc = "build"
    /\ dense' = [dense EXCEPT !.pc = "bottleneck", !.D = palma_bottleneck_paths(dense.A)]
    /\ g_last_error' = PALMA_SUCCESS    \* palma_clear_error in palma_matrix_create
    /\ UNCHANGED DenseRest

\* D = palma_reachability(A)
Reachability ==
    /\ dense.pc = "build"
    /\ dense' = [dense EXCEPT !.pc = "reachability", !.D = palma_reachability(dense.A)]
    /\ g_last_error' = PALMA_SUCCESS    \* palma_clear_error in palma_matrix_create
    /\ UNCHANGED DenseRest

\* D = palma_matrix_transitive_closure(A, s);
\* D2 = palma_matrix_mul(A, palma_matrix_closure(A, s), s)
TransitiveClosure ==
    /\ dense.pc = "build"
    /\ dense' = [dense EXCEPT !.pc = "transitive_closure",
                    !.D  = palma_matrix_transitive_closure(dense.A, dense.s),
                    !.D2 = palma_matrix_mul(dense.A,
                              palma_matrix_closure(dense.A, dense.s), dense.s)]
    /\ g_last_error' = PALMA_SUCCESS    \* palma_clear_error in palma_matrix_create
    /\ UNCHANGED DenseRest

NextGraph ==
    \/ \E i \in 0 .. 2, j \in 0 .. 2, v \in GraphVals(dense.s) : GraphSet(i, j, v)
    \/ \E source \in {0, 2} : SingleSourcePaths(source)
    \/ BottleneckPaths
    \/ Reachability
    \/ TransitiveClosure

SpecGraph == InitGraph /\ [][NextGraph]_vars

(***************************************************************************)
(* The spectral engine under test: a square matrix is created with         *)
(* palma_matrix_create_zero under an additive semiring and filled by       *)
(* palma_matrix_set calls; palma_eigenvalue or palma_eigenvector is then   *)
(* applied to it.                                                          *)
(***************************************************************************)
MaxWeights == 3

MaxIter == 3

SpectralVals == {-2, 0, 3}

InitSpectral ==
    /\ \E n \in Orders, s \in Additive :
          spectral = [s |-> s,
                      A |-> palma_matrix_create_zero(n, n, s),
                      lambda |-> 0,
                      max_iter |-> 0,
                      ret |-> 0,
                      vec |-> [i \in 0 .. n - 1 |-> 0],
                      critical_nodes |-> [i \in 0 .. n - 1 |-> 0],
                      pc |-> "build"]
    /\ kernel = Idle
    /\ dense = Idle
    /\ sched = Idle
    /\ sparse = Idle
    /\ api = Idle
    /\ heap = Idle
    /\ threads = Idle
    /\ loop = Idle
    /\ g_last_error = PALMA_SUCCESS

SpectralRest == <<kernel, dense, sched, sparse, api, heap, threads, loop>>

\* palma_matrix_set(A, i, j, v) while the matrix is being filled: each call
\* stores a weight in a cell that still holds zero(s)
SpectralSet(i, j, v) ==
    /\ spectral.pc = "build"
    /\ i < spectral.A.rows /\ j < spectral.A.cols
    /\ <<i, j>> \notin StoredCells(spectral.A, spectral.s)
    /\ Cardinality(StoredCells(spectral.A, spectral.s)) < MaxWeights
    /\ spectral' = [spectral EXCEPT !.A = palma_matrix_set(spectral.A, i, j, v)]
    /\ UNCHANGED <<SpectralRest, g_last_error>>

\* lambda = palma_eigenvalue(A, s)
Eigenvalue ==
    /\ spectral.pc = "build"
    /\ spectral' = [spectral EXCEPT !.pc = "eigenvalue",
                       !.lambda = palma_eigenvalue(spectral.A, spectral.s)]
    /\ g_last_error' = PALMA_SUCCESS
    /\ UNCHANGED SpectralRest

\* ret = palma_eigenvector(A, vec, &lambda, s, max_iter)
Eigenvector(max_iter) ==
    /\ spectral.pc = "build"
    /\ LET r == palma_eigenvector(spectral.A, spectral.s, max_iter)
       IN  spectral' = [spectral EXCEPT !.pc = "eigenvector", !.max_iter = max_iter,
                           !.ret = r.ret, !.vec = r.vec, !.lambda = r.lambda]
    /\ g_last_error' = PALMA_SUCCESS
    /\ UNCHANGED SpectralRest

\* ret = palma_critical_nodes(A, critical_nodes, s)
CriticalNodes ==
    /\ spectral.pc = "build"
    /\ LET r == palma_critical_nodes(spectral.A, spectral.s)
       IN  spectral' = [spectral EXCEPT !.pc = "critical_nodes", !.ret = r.ret,
                           !.critical_nodes = r.critical_nodes]
    /\ g_last_error' = PALMA_SUCCESS    \* palma_clear_error
    /\ UNCHANGED SpectralRest

NextSpectral ==
    \/ \E i \in 0 .. 2, j \in 0 .. 2, v \in SpectralVals : SpectralSet(i, j, v)
    \/ Eigenvalue
    \/ CriticalNodes
    \/ \E max_iter \in 1 .. MaxIter : Eigenvector(max_iter)

SpecSpectral == InitSpectral /\ [][NextSpectral]_vars

\* the same construction over the semirings that are not additive-tropical
InitSpectralOther ==
    /\ \E n \in Orders, s \in Semirings \ Additive :
          spectral = [s |-> s,
                      A |-> palma_matrix_create_zero(n, n, s),
                      lambda |-> 0,
                      max_iter |-> 0,
                      ret |-> 0,
                      vec |-> [i \in 0 .. n - 1 |-> 0],
                      critical_nodes |-> [i \in 0 .. n - 1 |-> 0],
                      pc |-> "build"]
    /\ kernel = Idle
    /\ dense = Idle
    /\ sched = Idle
    /\ sparse = Idle
    /\ api = Idle
    /\ heap = Idle
    /\ threads = Idle
    /\ loop = Idle
    /\ g_last_error \in {PALMA_SUCCESS, PALMA_ERR_INDEX_BOUNDS}

NextSpectralOther ==
    \/ \E i \in 0 .. 2, j \in 0 .. 2, v \in SpectralVals : SpectralSet(i, j, v)
    \/ Eigenvalue

SpecSpectralOther == InitSpectralOther /\ [][NextSpectralOther]_vars

(***************************************************************************)
(* The scheduler under test: palma_scheduler_create, then any sequence of  *)
(* palma_scheduler_add_constraint, palma_scheduler_set_ready_time and      *)
(* palma_scheduler_solve calls.  pc names the last call, ret its result,   *)
(* max_iter the argument of the last solve, solves the solve calls made,   *)
(* added the constraints that have been added, path and max_len the        *)
(* entries written by a palma_scheduler_critical_path call that followed   *)
(* the last solve and its limit.                                           *)
(***************************************************************************)
MaxSolves == 2

\* the max_iter arguments of palma_scheduler_solve: 0 asks for n_tasks passes
SolveArgs == {0, 1}

\* the (from, to) pairs of the constraints: a chain 0 -> 1 -> 2 and the edge
\* 2 -> 0 that closes it into a cycle
Precedences == {<<0, 1>>, <<1, 2>>, <<2, 0>>}

Durations == {-2, 3}

\* the tasks that are given ready times
Sources == {0, 1}

ReadyTimes == {0, 2}

\* the max_len arguments of palma_scheduler_critical_path
PathLimits == 0 .. 3

InitSched ==
    /\ \E n_tasks \in Orders, use_maxplus \in BOOLEAN :
          sched = [max_iter |-> 0,
                   ret |-> 0,
                   max_len |-> 0,
                   path |-> <<>>,
                   obj |-> palma_scheduler_create(n_tasks, use_maxplus),
                   pc |-> "created",
                   solves |-> 0,
                   added |-> {}]
    /\ kernel = Idle
    /\ dense = Idle
    /\ spectral = Idle
    /\ sparse = Idle
    /\ api = Idle
    /\ heap = Idle
    /\ threads = Idle
    /\ loop = Idle
    /\ g_last_error = PALMA_SUCCESS    \* palma_clear_error in palma_scheduler_create

SchedRest == <<kernel, dense, spectral, sparse, api, heap, threads, loop>>

\* ret = palma_scheduler_add_constraint(sched, from, to, duration); added records
\* the constraints of the calls that returned PALMA_SUCCESS
SchedAddConstraint(from, to, duration) ==
    /\ LET r == palma_scheduler_add_constraint(sched.obj, from, to, duration)
       IN  sched' = [sched EXCEPT !.pc = "add_constraint", !.obj = r.sched, !.ret = r.ret,
                        !.path = <<>>, !.max_len = 0,
                        !.added = IF r.ret = PALMA_SUCCESS
                                  THEN @ \cup {<<from, to, duration>>} ELSE @]
    /\ UNCHANGED <<SchedRest, g_last_error>>

\* ret = palma_scheduler_set_ready_time(sched, task, ready_time)
SchedSetReadyTime(task, ready_time) ==
    /\ LET r == palma_scheduler_set_ready_time(sched.obj, task, ready_time)
       IN  sched' = [sched EXCEPT !.pc = "set_ready_time", !.obj = r.sched, !.ret = r.ret,
                        !.path = <<>>, !.max_len = 0]
    /\ UNCHANGED <<SchedRest, g_last_error>>

\* ret = palma_scheduler_solve(sched, max_iter)
SchedSolve(max_iter) ==
    /\ sched.solves < MaxSolves
    /\ LET r == palma_scheduler_solve(sched.obj, max_iter)
       IN  sched' = [sched EXCEPT !.pc = "solve", !.obj = r.sched, !.ret = r.ret,
                        !.max_iter = max_iter, !.solves = @ + 1,
                        !.path = <<>>, !.max_len = 0]
    /\ g_last_error' = PALMA_SUCCESS    \* palma_clear_error
    /\ UNCHANGED SchedRest

\* ret = palma_scheduler_critical_path(sched, path, max_len) on the scheduler
\* as the last solve left it
SchedCriticalPath(max_len) ==
    /\ sched.pc = "solve"
    /\ LET r == palma_scheduler_critical_path(sched.obj, max_len)
       IN  /\ sched' = [sched EXCEPT !.pc = "critical_path", !.ret = r.ret,
                            !.path = r.path, !.max_len = max_len]
           /\ g_last_error' = r.err
    /\ UNCHANGED SchedRest

NextSched ==
    \/ \E p \in Precedences, duration \in Durations :
          SchedAddConstraint(p[1], p[2], duration)
    \/ \E task \in Sources, ready_time \in ReadyTimes :
          SchedSetReadyTime(task, ready_time)
    \/ \E max_iter \in SolveArgs : SchedSolve(max_iter)
    \/ \E max_len \in PathLimits : SchedCriticalPath(max_len)

SpecSched == InitSched /\ [][NextSched]_vars

(***************************************************************************)
(* Sparse matrices under test: a matrix made by palma_sparse_create or by  *)
(* palma_sparse_from_dense, changed by palma_sparse_set,                   *)
(* palma_sparse_add_entry and palma_sparse_compress, converted to dense    *)
(* and back, and multiplied by a vector.  NoObject stands for a result     *)
(* that has not been produced; a change of the matrix discards the results *)
(* computed from it.                                                       *)
(***************************************************************************)
MaxNnz == 3

SparseShapes == {<<1, 3>>, <<2, 2>>}

SparseCapacities == {0, 1}

SparseVals(s) ==
    IF s = PALMA_BOOLEAN THEN {0, 1} ELSE {palma_zero(s), -2, 3}

VectorVals(s) ==
    IF s = PALMA_BOOLEAN THEN {0, 1, 3} ELSE {PALMA_NEG_INF, 3, PALMA_POS_INF}

SparseFresh(pc, s, sp, M) ==
    [s |-> s,
     x |-> NoObject,
     D |-> NoObject,
     y |-> NoObject,
     ret |-> PALMA_SUCCESS,
     M |-> M,
     sp |-> sp,
     C |-> NoObject,
     pc |-> pc,
     S2 |-> NoObject,
     y_dense |-> NoObject]

\* the dense matrices of one shape holding at most MaxNnz values other than zero(s)
DenseInputs(rows, cols, s) ==
    LET cells == (0 .. rows - 1) \X (0 .. cols - 1)
        Z     == palma_matrix_create_zero(rows, cols, s)
    IN  { [Z EXCEPT !.data = [p \in DOMAIN Z.data |->
                                IF /\ p % Z.stride < cols
                                   /\ <<p \div Z.stride, p % Z.stride>> \in DOMAIN f
                                THEN f[<<p \div Z.stride, p % Z.stride>>]
                                ELSE Z.data[p]]] :
            f \in UNION { [c -> SparseVals(s) \ {palma_zero(s)}] :
                             c \in {c \in SUBSET cells : Cardinality(c) <= MaxNnz} } }

InitSparse ==
    /\ \E shape \in SparseShapes, s \in Semirings :
          \/ \E capacity \in SparseCapacities :
                sparse = SparseFresh("create", s,
                            palma_sparse_create(shape[1], shape[2], capacity, s), NoObject)
          \/ \E M \in DenseInputs(shape[1], shape[2], s) :
                sparse = SparseFresh("from_dense", s, palma_sparse_from_dense(M, s), M)
    /\ kernel = Idle
    /\ dense = Idle
    /\ spectral = Idle
    /\ sched = Idle
    /\ api = Idle
    /\ heap = Idle
    /\ threads = Idle
    /\ loop = Idle
    /\ g_last_error = PALMA_SUCCESS

SparseRest == <<kernel, dense, spectral, sched, api, heap, threads, loop>>

SparseLive == sparse.pc \in {"create", "from_dense", "set", "add_entry", "compress"}

\* the cell (row, col) is stored, or lies outside the matrix
SparseNoInsert(sp, row, col) ==
    IF row >= sp.rows \/ col >= sp.cols THEN TRUE
    ELSE \E k \in sp.row_ptr[row] .. sp.row_ptr[row + 1] - 1 : sp.col_idx[k] = col

\* err = palma_sparse_set(sp, row, col, val)
SparseSet(row, col, val) ==
    /\ SparseLive
    /\ IF sparse.sp.nnz < MaxNnz THEN TRUE ELSE SparseNoInsert(sparse.sp, row, col)
    /\ LET r == palma_sparse_set(sparse.sp, row, col, val)
       IN  /\ sparse' = [SparseFresh("set", sparse.s, r.sp, NoObject) EXCEPT !.ret = r.ret]
           /\ g_last_error' = IF r.ret = PALMA_SUCCESS THEN g_last_error ELSE r.ret
    /\ UNCHANGED SparseRest

\* err = palma_sparse_add_entry(sp, row, col, val)
SparseAddEntry(row, col, val) ==
    /\ SparseLive
    /\ IF sparse.sp.nnz < MaxNnz THEN TRUE ELSE SparseNoInsert(sparse.sp, row, col)
    /\ LET r == palma_sparse_add_entry(sparse.sp, row, col, val)
       IN  /\ sparse' = [SparseFresh("add_entry", sparse.s, r.sp, NoObject)
                            EXCEPT !.ret = r.ret]
           /\ g_last_error' = IF r.ret = PALMA_SUCCESS THEN g_last_error ELSE r.ret
    /\ UNCHANGED SparseRest

\* err = palma_sparse_compress(sp)
SparseCompress ==
    /\ SparseLive
    /\ LET r == palma_sparse_compress(sparse.sp)
       IN  sparse' = [SparseFresh("compress", sparse.s, r.sp, NoObject)
                         EXCEPT !.ret = r.ret]
    /\ UNCHANGED <<SparseRest, g_last_error>>

\* D = palma_sparse_to_dense(sp); S2 = palma_sparse_from_dense(D, sp->semiring);
\* C = palma_sparse_clone(sp); palma_sparse_compress(C)
SparseRoundTrip ==
    /\ SparseLive
    /\ LET D == palma_sparse_to_dense(sparse.sp)
           r == palma_sparse_compress(palma_sparse_clone(sparse.sp))
       IN  sparse' = [sparse EXCEPT !.pc = "round_trip", !.D = D,
                         !.S2 = palma_sparse_from_dense(D, sparse.sp.semiring),
                         !.C = r.sp, !.ret = r.ret]
    /\ g_last_error' = PALMA_SUCCESS    \* palma_clear_error in the creates
    /\ UNCHANGED SparseRest

\* D = palma_sparse_to_dense(sp) for the sp just made from the dense matrix M
DenseRoundTrip ==
    /\ sparse.pc = "from_dense"
    /\ sparse' = [sparse EXCEPT !.pc = "to_dense",
                     !.D = palma_sparse_to_dense(sparse.sp)]
    /\ g_last_error' = PALMA_SUCCESS    \* palma_clear_error in palma_matrix_create
    /\ UNCHANGED SparseRest

\* palma_sparse_matvec(sp, x, y); D = palma_sparse_to_dense(sp);
\* palma_matvec(D, x, y_dense, sp->semiring)
SparseMatvec(x) ==
    /\ SparseLive
    /\ LET D == palma_sparse_to_dense(sparse.sp)
       IN  sparse' = [sparse EXCEPT !.pc = "matvec", !.x = x, !.D = D,
                         !.y = palma_sparse_matvec(sparse.sp, x),
                         !.y_dense = palma_matvec(D, x, sparse.sp.semiring)]
    /\ g_last_error' = PALMA_SUCCESS    \* palma_clear_error in palma_matrix_create
    /\ UNCHANGED SparseRest

NextSparse ==
    \/ \E row \in 0 .. 2, col \in 0 .. 3, val \in SparseVals(sparse.s) :
          SparseSet(row, col, val)
    \/ \E row \in 0 .. 2, col \in 0 .. 3, val \in SparseVals(sparse.s) :
          SparseAddEntry(row, col, val)
    \/ SparseCompress
    \/ SparseRoundTrip
    \/ DenseRoundTrip
    \/ \E x \in [0 .. sparse.sp.cols - 1 -> VectorVals(sparse.s)] : SparseMatvec(x)

SpecSparse == InitSparse /\ [][NextSparse]_vars

(***************************************************************************)
(* Calls of the handle-returning operations, one after the other, on       *)
(* arguments that are valid, null, of a zero dimension, not square or of   *)
(* mismatched shapes, with and without allocation failure.  The record     *)
(* keeps the last call: its name, its arguments and the handle returned.   *)
(***************************************************************************)
ApiDims == {0, 1, 2}

ApiSemirings == {PALMA_MAXPLUS, PALMA_BOOLEAN}

\* the shapes of the handles passed in; <<0, 0>> stands for a null handle
ApiShapes == {<<0, 0>>, <<1, 1>>, <<2, 2>>, <<1, 2>>, <<2, 1>>}

\* a dense matrix of the shape with one(MaxPlus) on its diagonal
ApiDense(shape) ==
    IF shape = <<0, 0>> THEN Null
    ELSE Handle([palma_matrix_create_zero(shape[1], shape[2], PALMA_MAXPLUS) EXCEPT
                    !.data[0] = palma_one(PALMA_MAXPLUS)])

ApiSparse(shape) ==
    IF shape = <<0, 0>> THEN Null
    ELSE Handle(palma_sparse_from_dense(ApiDense(shape).obj, PALMA_MAXPLUS))

\* a caller's buffer of four cells, or a null pointer
ApiBuffer(present) == IF present THEN Handle([p \in 0 .. 3 |-> 0]) ELSE Null

ApiCall(op, rows, cols, A, B, oom, h) ==
    [cols |-> cols, rows |-> rows, A |-> A, B |-> B, h |-> h, oom |-> oom, op |-> op]

InitApi ==
    /\ api = ApiCall("none", 1, 1, <<0, 0>>, <<0, 0>>, FALSE, Null)
    /\ kernel = Idle
    /\ dense = Idle
    /\ spectral = Idle
    /\ sched = Idle
    /\ sparse = Idle
    /\ heap = Idle
    /\ threads = Idle
    /\ loop = Idle
    /\ g_last_error = PALMA_SUCCESS

ApiRest == <<kernel, dense, spectral, sched, sparse, heap, threads, loop>>

\* the call op on the dimensions rows, cols and the handles of shapes A, B has
\* returned r
ApiReturn(op, rows, cols, A, B, oom, r) ==
    /\ api' = ApiCall(op, rows, cols, A, B, oom, r.h)
    /\ g_last_error' = r.err
    /\ UNCHANGED ApiRest

MatrixCreate(rows, cols, oom) ==
    ApiReturn("matrix_create", rows, cols, <<0, 0>>, <<0, 0>>, oom,
              call_matrix_create(rows, cols, oom))

MatrixCreateZero(rows, cols, s, oom) ==
    ApiReturn("matrix_create_zero", rows, cols, <<0, 0>>, <<0, 0>>, oom,
              call_matrix_create_zero(rows, cols, s, oom))

MatrixCreateIdentity(n, s, oom) ==
    ApiReturn("matrix_create_identity", n, n, <<0, 0>>, <<0, 0>>, oom,
              call_matrix_create_identity(n, s, oom))

\* data stands in the place of the first handle: <<1, 1>> for a buffer
MatrixWrap(present, rows, cols, oom) ==
    ApiReturn("matrix_wrap", rows, cols, IF present THEN <<1, 1>> ELSE <<0, 0>>,
              <<0, 0>>, oom,
              call_matrix_wrap(ApiBuffer(present), rows, cols, 2, oom))

MatrixClone(A, oom) ==
    ApiReturn("matrix_clone", 1, 1, A, <<0, 0>>, oom,
              call_matrix_clone(ApiDense(A), oom))

MatrixAdd(A, B, s, oom) ==
    ApiReturn("matrix_add", 1, 1, A, B, oom,
              call_matrix_add(ApiDense(A), ApiDense(B), s, oom))

MatrixMul(A, B, s, oom) ==
    ApiReturn("matrix_mul", 1, 1, A, B, oom,
              call_matrix_mul(ApiDense(A), ApiDense(B), s, oom))

MatrixPower(A, n, s, oom) ==
    ApiReturn("matrix_power", 1, 1, A, <<0, 0>>, oom,
              call_matrix_power(ApiDense(A), n, s, oom))

ApiMatrixClosure(A, s, oom) ==
    ApiReturn("matrix_closure", 1, 1, A, <<0, 0>>, oom,
              call_matrix_closure(ApiDense(A), s, oom))

MatrixTransitiveClosure(A, s, oom) ==
    ApiReturn("matrix_transitive_closure", 1, 1, A, <<0, 0>>, oom,
              call_matrix_transitive_closure(ApiDense(A), s, oom))

ApiReachability(A, oom) ==
    ApiReturn("reachability", 1, 1, A, <<0, 0>>, oom,
              call_reachability(ApiDense(A), oom))

ApiBottleneckPaths(A, oom) ==
    ApiReturn("bottleneck_paths", 1, 1, A, <<0, 0>>, oom,
              call_bottleneck_paths(ApiDense(A), oom))

SparseCreate(rows, cols, s, oom) ==
    ApiReturn("sparse_create", rows, cols, <<0, 0>>, <<0, 0>>, oom,
              call_sparse_create(rows, cols, 0, s, oom))

SparseFromDense(A, s, oom) ==
    ApiReturn("sparse_from_dense", 1, 1, A, <<0, 0>>, oom,
              call_sparse_from_dense(ApiDense(A), s, oom))

SparseToDense(A, oom) ==
    ApiReturn("sparse_to_dense", 1, 1, A, <<0, 0>>, oom,
              call_sparse_to_dense(ApiSparse(A), oom))

SparseClone(A, oom) ==
    ApiReturn("sparse_clone", 1, 1, A, <<0, 0>>, oom,
              call_sparse_clone(ApiSparse(A), oom))

SparseMul(A, B, oom) ==
    ApiReturn("sparse_mul", 1, 1, A, B, oom,
              call_sparse_mul(ApiSparse(A), ApiSparse(B), oom))

SchedulerCreate(n_tasks, use_maxplus, oom) ==
    ApiReturn("scheduler_create", n_tasks, n_tasks, <<0, 0>>, <<0, 0>>, oom,
              call_scheduler_create(n_tasks, use_maxplus, oom))

NextApi ==
    \/ \E rows \in ApiDims, cols \in ApiDims, oom \in BOOLEAN :
          MatrixCreate(rows, cols, oom)
    \/ \E rows \in ApiDims, cols \in ApiDims, s \in ApiSemirings, oom \in BOOLEAN :
          MatrixCreateZero(rows, cols, s, oom)
    \/ \E n \in ApiDims, s \in ApiSemirings, oom \in BOOLEAN :
          MatrixCreateIdentity(n, s, oom)
    \/ \E data \in BOOLEAN, rows \in ApiDims, cols \in ApiDims, oom \in BOOLEAN :
          MatrixWrap(data, rows, cols, oom)
    \/ \E A \in ApiShapes, oom \in BOOLEAN : MatrixClone(A, oom)
    \/ \E A \in ApiShapes, B \in ApiShapes, s \in ApiSemirings, oom \in BOOLEAN :
          MatrixAdd(A, B, s, oom)
    \/ \E A \in ApiShapes, B \in ApiShapes, s \in ApiSemirings, oom \in BOOLEAN :
          MatrixMul(A, B, s, oom)
    \/ \E A \in ApiShapes, n \in 0 .. 3, s \in ApiSemirings, oom \in BOOLEAN :
          MatrixPower(A, n, s, oom)
    \/ \E A \in ApiShapes, s \in ApiSemirings, oom \in BOOLEAN : ApiMatrixClosure(A, s, oom)
    \/ \E A \in ApiShapes, s \in ApiSemirings, oom \in BOOLEAN :
          MatrixTransitiveClosure(A, s, oom)
    \/ \E A \in ApiShapes, oom \in BOOLEAN : ApiReachability(A, oom)
    \/ \E A \in ApiShapes, oom \in BOOLEAN : ApiBottleneckPaths(A, oom)
    \/ \E rows \in ApiDims, cols \in ApiDims, s \in ApiSemirings, oom \in BOOLEAN :
          SparseCreate(rows, cols, s, oom)
    \/ \E A \in ApiShapes, s \in ApiSemirings, oom \in BOOLEAN : SparseFromDense(A, s, oom)
    \/ \E A \in ApiShapes, oom \in BOOLEAN : SparseToDense(A, oom)
    \/ \E A \in ApiShapes, oom \in BOOLEAN : SparseClone(A, oom)
    \/ \E A \in ApiShapes, B \in ApiShapes, oom \in BOOLEAN : SparseMul(A, B, oom)
    \/ \E n_tasks \in ApiDims, use_maxplus \in BOOLEAN, oom \in BOOLEAN :
          SchedulerCreate(n_tasks, use_maxplus, oom)

SpecApi == InitApi /\ [][NextApi]_vars

(***************************************************************************)
(* Ownership: a matrix A, either created (owning its buffer) or wrapped    *)
(* over a caller's buffer with stride 3 > cols 2, is cloned into B; both   *)
(* are written through palma_matrix_set and destroyed.  expA and expB      *)
(* are the element values the caller has stored through each handle.       *)
(***************************************************************************)
MaxSets == 2
HeapVals == {1, 2}
HeapGrid == (0 .. 1) \X (0 .. 1)

\* A created 2 x 2 matrix filled with the elements e
HeapOwned(e) ==
    LET made == heap_matrix_create(<<>>, 2, 2)
    IN  [mat |-> made.mat,
         buffers |-> [made.buffers EXCEPT ![0].cells =
                        [p \in DOMAIN made.buffers[0].cells |->
                            IF p \div 4 < 2 /\ p % 4 < 2 THEN e[<<p \div 4, p % 4>>] ELSE 0]]]

\* A 2 x 2 view of a caller's buffer of 6 cells; the cell after each row is 9
HeapWrapped(e) ==
    [mat |-> heap_matrix_wrap(0, 2, 2, 3),
     buffers |-> heap_alloc(<<>>, [p \in 0 .. 5 |->
                                     IF p % 3 < 2 THEN e[<<p \div 3, p % 3>>] ELSE 9])]

InitHeap ==
    /\ \E e \in [HeapGrid -> HeapVals], wrapped \in BOOLEAN :
          LET start == IF wrapped THEN HeapWrapped(e) ELSE HeapOwned(e)
          IN  heap = [A |-> start.mat,
                      B |-> start.mat,
                      buffers |-> start.buffers,
                      pc |-> "made",
                      stA |-> "live",
                      stB |-> "none",
                      expA |-> e,
                      expB |-> e,
                      sets |-> 0]
    /\ kernel = Idle
    /\ dense = Idle
    /\ spectral = Idle
    /\ sched = Idle
    /\ sparse = Idle
    /\ api = Idle
    /\ threads = Idle
    /\ loop = Idle
    /\ g_last_error = PALMA_SUCCESS

HeapRest == <<kernel, dense, spectral, sched, sparse, api, threads, loop, g_last_error>>

HeapSetA(row, col, val) ==
    /\ heap.stA = "live"
    /\ heap.sets < MaxSets
    /\ heap' = [heap EXCEPT !.pc = "setA",
                            !.buffers = heap_matrix_set(heap.buffers, heap.A, row, col, val),
                            !.expA[<<row, col>>] = val,
                            !.sets = heap.sets + 1]
    /\ UNCHANGED HeapRest

HeapSetB(row, col, val) ==
    /\ heap.stB = "live"
    /\ heap.sets < MaxSets
    /\ heap' = [heap EXCEPT !.pc = "setB",
                            !.buffers = heap_matrix_set(heap.buffers, heap.B, row, col, val),
                            !.expB[<<row, col>>] = val,
                            !.sets = heap.sets + 1]
    /\ UNCHANGED HeapRest

HeapClone ==
    /\ heap.stA = "live"
    /\ heap.stB = "none"
    /\ LET r == heap_matrix_clone(heap.buffers, heap.A)
       IN  heap' = [heap EXCEPT !.pc = "clone", !.buffers = r.buffers, !.B = r.mat,
                                !.stB = "live", !.expB = heap.expA]
    /\ UNCHANGED HeapRest

HeapDestroyA ==
    /\ heap.stA = "live"
    /\ heap' = [heap EXCEPT !.pc = "destroyA",
                            !.buffers = heap_matrix_destroy(heap.buffers, heap.A),
                            !.stA = "destroyed"]
    /\ UNCHANGED HeapRest

HeapDestroyB ==
    /\ heap.stB = "live"
    /\ heap' = [heap EXCEPT !.pc = "destroyB",
                            !.buffers = heap_matrix_destroy(heap.buffers, heap.B),
                            !.stB = "destroyed"]
    /\ UNCHANGED HeapRest

NextHeap ==
    \/ \E row \in 0 .. 1, col \in 0 .. 1, val \in {7, 8} : HeapSetA(row, col, val)
    \/ \E row \in 0 .. 1, col \in 0 .. 1, val \in {7, 8} : HeapSetB(row, col, val)
    \/ HeapClone
    \/ HeapDestroyA
    \/ HeapDestroyB

SpecHeap == InitHeap /\ [][NextHeap]_vars

(***************************************************************************)
(* Two threads of one process.  Each works on a matrix of its own and      *)
(* reads the error slot.  tls tells whether the build declared             *)
(* g_last_error with a thread-local storage class (C11 _Thread_local or    *)
(* the GNU __thread) or, lacking both, as a plain static.  slot maps a     *)
(* storage instance to its content: instance t for thread t in a           *)
(* thread-local build, instance 0 for the one object of a plain static.    *)
(* wrote[t] is the set of memory objects thread t has written, own[t] the  *)
(* kind thread t stored last, seen[t] what palma_get_last_error returned   *)
(* to it last.                                                             *)
(***************************************************************************)
Threads == {1, 2}

ThreadErrors == {PALMA_SUCCESS, PALMA_ERR_NULL_PTR, PALMA_ERR_INVALID_DIM}

\* the instance of g_last_error that thread t accesses
SlotOf(tls, t) == IF tls THEN t ELSE 0

\* palma_set_last_error(err) by thread t; palma_clear_error stores PALMA_SUCCESS
thread_set_last_error(T, t, err) ==
    [T EXCEPT !.slot[SlotOf(T.tls, t)] = err,
              !.own[t] = err,
              !.wrote[t] = @ \cup {<<"g_last_error", SlotOf(T.tls, t)>>}]

InitThreads ==
    /\ \E tls \in BOOLEAN :
          threads = [pc |-> [t \in Threads |-> "start"],
                     tls |-> tls,
                     slot |-> [i \in 0 .. 2 |-> PALMA_SUCCESS],
                     own |-> [t \in Threads |-> PALMA_SUCCESS],
                     wrote |-> [t \in Threads |-> {}],
                     seen |-> [t \in Threads |-> PALMA_SUCCESS]]
    /\ kernel = Idle
    /\ dense = Idle
    /\ spectral = Idle
    /\ sched = Idle
    /\ sparse = Idle
    /\ api = Idle
    /\ heap = Idle
    /\ loop = Idle
    /\ g_last_error = PALMA_SUCCESS

ThreadsRest == <<kernel, dense, spectral, sched, sparse, api, heap, loop, g_last_error>>

\* thread t: mat = palma_matrix_create(rows, 1); a success allocates and clears
ThreadMatrixCreate(t, rows) ==
    /\ threads' =
          IF rows = 0
          THEN [thread_set_last_error(threads, t, PALMA_ERR_INVALID_DIM)
                   EXCEPT !.pc[t] = "matrix_create"]
          ELSE [thread_set_last_error(threads, t, PALMA_SUCCESS)
                   EXCEPT !.pc[t] = "matrix_create",
                          !.wrote[t] = @ \cup {<<"matrix", t>>}]
    /\ UNCHANGED ThreadsRest

\* thread t: palma_matrix_clone(NULL)
ThreadMatrixCloneNull(t) ==
    /\ threads' = [thread_set_last_error(threads, t, PALMA_ERR_NULL_PTR)
                      EXCEPT !.pc[t] = "matrix_clone"]
    /\ UNCHANGED ThreadsRest

\* thread t: palma_matrix_set on the matrix it created
ThreadMatrixSet(t) ==
    /\ <<"matrix", t>> \in threads.wrote[t]
    /\ threads' = [threads EXCEPT !.pc[t] = "matrix_set"]
    /\ UNCHANGED ThreadsRest

\* thread t: palma_build_config() prints into the function's static buffer
ThreadBuildConfig(t) ==
    /\ threads' = [threads EXCEPT !.pc[t] = "build_config",
                                  !.wrote[t] = @ \cup {<<"config", 0>>}]
    /\ UNCHANGED ThreadsRest

\* thread t: palma_get_last_error()
ThreadGetLastError(t) ==
    /\ threads' = [threads EXCEPT !.pc[t] = "get_last_error",
                                  !.seen[t] = threads.slot[SlotOf(threads.tls, t)]]
    /\ UNCHANGED ThreadsRest

NextThreads ==
    \E t \in Threads :
       \/ \E rows \in {0, 1} : ThreadMatrixCreate(t, rows)
       \/ ThreadMatrixCloneNull(t)
       \/ ThreadMatrixSet(t)
       \/ ThreadBuildConfig(t)
       \/ ThreadGetLastError(t)

SpecThreads == InitThreads /\ [][NextThreads]_vars

(***************************************************************************)
(* The iterative routines pass by pass: one call of palma_scheduler_solve  *)
(* or of palma_eigenvector, on any of a family of schedulers and          *)
(* matrices.  iter is the loop counter, x the vector the    *)
(* next pass starts from (sched->state, resp. x), ret and out the value    *)
(* returned and the vector left in sched->state resp. eigenvector.  steps  *)
(* counts the matrix-vector products made, hit tells that the last pass    *)
(* left the vector as it was, last is the vector that pass produced.       *)
(***************************************************************************)
LoopArgs == {0, 1, 2}

\* the constraint from -> to with the duration d, or none for d = 0
LoopConstraint(S, from, to, d) ==
    IF d = 0 THEN S ELSE palma_scheduler_add_constraint(S, from, to, d).sched

LoopReady(S, task, given, ready_time) ==
    IF given THEN palma_scheduler_set_ready_time(S, task, ready_time).sched ELSE S

\* a scheduler of three tasks as the calls of its interface leave it
LoopScheduler(use_maxplus, d, r) ==
    LoopReady(
        LoopReady(
            LoopConstraint(
                LoopConstraint(
                    LoopConstraint(palma_scheduler_create(3, use_maxplus), 0, 1, d[1]),
                    1, 2, d[2]),
                2, 0, d[3]),
            0, r[1], 0),
        1, r[2], 2)

\* a square matrix of order 2 with the entries e, zero(s) for e = 1
LoopMatrix(e, s) ==
    LET Z == palma_matrix_create_zero(2, 2, s)
    IN  [Z EXCEPT !.data = [p \in DOMAIN Z.data |->
                              IF p % Z.stride < 2 /\ p \div Z.stride < 2
                                 /\ e[<<p \div Z.stride, p % Z.stride>>] # 1
                              THEN e[<<p \div Z.stride, p % Z.stride>>]
                              ELSE Z.data[p]]]

LoopCall(kind, S, A, s, arg, x) ==
    [s |-> s,
     A |-> A,
     x |-> x,
     lambda |-> 0,
     iter |-> 0,
     max_iter |-> arg,
     ret |-> 0,
     S |-> S,
     pc |-> "loop",
     kind |-> kind,
     arg |-> arg,
     out |-> x,
     steps |-> 0,
     hit |-> FALSE,
     last |-> x]

InitLoop ==
    /\ loop = [LoopCall("none", NoObject, NoObject, PALMA_MAXPLUS, 1, <<>>)
                 EXCEPT !.pc = "idle"]
    /\ kernel = Idle
    /\ dense = Idle
    /\ spectral = Idle
    /\ sched = Idle
    /\ sparse = Idle
    /\ api = Idle
    /\ heap = Idle
    /\ threads = Idle
    /\ g_last_error \in {PALMA_SUCCESS, PALMA_ERR_INDEX_BOUNDS}

LoopRest == <<kernel, dense, spectral, sched, sparse, api, heap, threads>>

\* palma_scheduler_solve(sched, arg) up to the loop:
\* if (max_iter == 0) max_iter = n_tasks
LoopSolveCall(use_maxplus, d, r, arg) ==
    /\ loop.pc = "idle"
    /\ LET S == LoopScheduler(use_maxplus, d, r)
       IN  loop' = [LoopCall("solve", S, S.system, S.semiring, arg, S.state)
                      EXCEPT !.pc = "loop", !.max_iter = SolveIters(S, arg)]
    /\ UNCHANGED <<LoopRest, g_last_error>>

\* palma_eigenvector(A, eigenvector, &lambda, s, arg) up to the loop: the
\* default max_iter, the eigenvalue, the return for lambda = NEG_INF, and x
\* initialised with ones
LoopEigCall(s, e, arg) ==
    /\ loop.pc = "idle"
    /\ LET A      == LoopMatrix(e, s)
           lambda == palma_eigenvalue(A, s)
           iters  == IF arg = 0 THEN PALMA_DEFAULT_MAX_ITER ELSE arg
           call   == LoopCall("eigenvector", NoObject, A, s, arg,
                              [i \in 0 .. 1 |-> palma_one(s)])
       IN  loop' = IF lambda = PALMA_NEG_INF
                   THEN [call EXCEPT !.pc = "returned", !.max_iter = iters,
                                     !.lambda = lambda,
                                     !.ret = PALMA_ERR_NOT_CONVERGED,
                                     !.out = [i \in 0 .. A.rows - 1 |-> palma_zero(s)]]
                   ELSE [call EXCEPT !.pc = "loop", !.max_iter = iters,
                                     !.lambda = lambda]
    /\ g_last_error' = PALMA_SUCCESS    \* palma_clear_error in palma_eigenvalue
    /\ UNCHANGED LoopRest

\* one pass of the loop of palma_scheduler_solve; a converged pass returns iter + 1
LoopSolvePass ==
    /\ loop.pc = "loop" /\ loop.kind = "solve"
    /\ loop.iter < loop.max_iter
    /\ LET x == SolveStep(loop.S, loop.x)
       IN  /\ loop' = [loop EXCEPT
                          !.x = x, !.iter = loop.iter + 1,
                          !.steps = loop.steps + 1, !.hit = (x = loop.x), !.last = x,
                          !.pc = IF SolveConverged(x, loop.x) THEN "returned" ELSE "loop",
                          !.ret = IF SolveConverged(x, loop.x) THEN loop.iter + 1 ELSE 0,
                          !.out = x]
           /\ g_last_error' = IF SolveConverged(x, loop.x) THEN PALMA_SUCCESS
                              ELSE g_last_error
    /\ UNCHANGED LoopRest

\* the loop of palma_scheduler_solve left by iter = max_iter
LoopSolveExit ==
    /\ loop.pc = "loop" /\ loop.kind = "solve"
    /\ loop.iter >= loop.max_iter
    /\ loop' = [loop EXCEPT !.pc = "returned", !.ret = loop.max_iter, !.out = loop.x]
    /\ g_last_error' = PALMA_SUCCESS
    /\ UNCHANGED LoopRest

\* one pass of the loop of palma_eigenvector
LoopEigPass ==
    /\ loop.pc = "loop" /\ loop.kind = "eigenvector"
    /\ loop.iter < loop.max_iter
    /\ LET y == EigStep(loop.A, loop.x, loop.lambda, loop.s)
       IN  loop' = [loop EXCEPT
                       !.x = y, !.iter = loop.iter + 1,
                       !.steps = loop.steps + 1, !.hit = (y = loop.x), !.last = y,
                       !.pc = IF EigConverged(y, loop.x) THEN "returned" ELSE "loop",
                       !.ret = IF EigConverged(y, loop.x) THEN PALMA_SUCCESS ELSE 0,
                       !.out = IF EigConverged(y, loop.x) THEN y ELSE loop.out]
    /\ UNCHANGED <<LoopRest, g_last_error>>

\* the loop of palma_eigenvector left by iter = max_iter: the last iterate is
\* copied out
LoopEigExit ==
    /\ loop.pc = "loop" /\ loop.kind = "eigenvector"
    /\ loop.iter >= loop.max_iter
    /\ loop' = [loop EXCEPT !.pc = "returned", !.ret = PALMA_ERR_NOT_CONVERGED,
                            !.out = loop.x]
    /\ UNCHANGED <<LoopRest, g_last_error>>

NextLoop ==
    \/ \E use_maxplus \in BOOLEAN, d \in [1 .. 3 -> {0} \cup Durations],
          r \in [1 .. 2 -> BOOLEAN], arg \in LoopArgs :
          LoopSolveCall(use_maxplus, d, r, arg)
    \/ \E s \in Additive, e \in [(0 .. 1) \X (0 .. 1) -> {1, 0, 3}], arg \in LoopArgs :
          LoopEigCall(s, e, arg)
    \/ LoopSolvePass
    \/ LoopSolveExit
    \/ LoopEigPass
    \/ LoopEigExit

SpecLoop == InitLoop /\ [][NextLoop]_vars

\* the passes of a call that has reached its loop
LoopRun ==
    \/ LoopSolvePass
    \/ LoopSolveExit
    \/ LoopEigPass
    \/ LoopEigExit

\* a call that has reached its loop runs on: the thread that made it executes it
SpecLoopFair == SpecLoop /\ WF_vars(LoopRun)

(***************************************************************************)
(* Reference arithmetic for the kernel properties: the exact sum a + b,    *)
(* held as 2*q + r with r in {0, 1}, clamped into the 32-bit range.        *)
(***************************************************************************)
HalfSum(a, b) == (a \div 2) + (b \div 2) + (((a % 2) + (b % 2)) \div 2)
TwoTo30 == (PALMA_POS_INF \div 2) + 1
ExactSumClamped(a, b) ==
    IF HalfSum(a, b) >= TwoTo30 THEN PALMA_POS_INF
    ELSE IF HalfSum(a, b) < -TwoTo30 THEN PALMA_NEG_INF
    ELSE a + b

IsInf(v) == v = PALMA_NEG_INF \/ v = PALMA_POS_INF

\* C1: absorption, for every semiring and every 32-bit value a:
\* mul(a, zero(s), s) = zero(s) and mul(zero(s), a, s) = zero(s).
C1_Absorption ==
    kernel.pc = "absorb" =>
        /\ kernel.r1 = palma_zero(kernel.s)
        /\ kernel.r2 = palma_zero(kernel.s)

\* C2 as stated: for MaxPlus and MinPlus and operands neither of which is the
\* semiring's zero, mul(a, b, s) is the exact sum clamped into the 32-bit range.
C2_SaturationAsStated ==
    (kernel.pc = "mul" /\ kernel.s \in Additive
        /\ kernel.a # palma_zero(kernel.s) /\ kernel.b # palma_zero(kernel.s))
    => kernel.r1 = ExactSumClamped(kernel.a, kernel.b)

\* C2 amended: for MaxPlus and MinPlus, when neither operand is NEG_INF or POS_INF
\* mul(a, b, s) is the exact sum clamped into the 32-bit range; when an operand is
\* POS_INF and neither is NEG_INF the result is POS_INF.
C2_Saturation ==
    (kernel.pc = "mul" /\ kernel.s \in Additive) =>
        /\ (~IsInf(kernel.a) /\ ~IsInf(kernel.b))
              => kernel.r1 = ExactSumClamped(kernel.a, kernel.b)
        /\ ((kernel.a = PALMA_POS_INF \/ kernel.b = PALMA_POS_INF)
              /\ kernel.a # PALMA_NEG_INF /\ kernel.b # PALMA_NEG_INF)
              => kernel.r1 = PALMA_POS_INF

\* a sum that leaves the 32-bit range at the top has been multiplied
C2_Witness ==
    /\ kernel.pc = "mul" /\ kernel.s = PALMA_MINPLUS
    /\ kernel.a = PALMA_POS_INF - 1 /\ kernel.b = 2
    /\ kernel.r1 = PALMA_POS_INF

\* C3 as stated: for every semiring and every value a,
\* add(a, zero(s), s) = a and mul(a, one(s), s) = a.
C3_IdentitiesAsStated ==
    kernel.pc = "identity" => (kernel.r1 = kernel.a /\ kernel.r2 = kernel.a)

\* C3 amended: add(a, zero(s), s) = a and mul(a, one(s), s) = a for every value a
\* of the four tropical semirings and for a in {0, 1} of the Boolean semiring; for
\* any other a the Boolean results are 1, the truth value of a.
C3_Identities ==
    kernel.pc = "identity" =>
        IF kernel.s = PALMA_BOOLEAN /\ kernel.a \notin {0, 1}
        THEN kernel.r1 = 1 /\ kernel.r2 = 1
        ELSE kernel.r1 = kernel.a /\ kernel.r2 = kernel.a

\* the identities have been applied to a finite value in (max,min), where e = +infinity
C3_Witness ==
    /\ kernel.pc = "identity" /\ kernel.s = PALMA_MAXMIN
    /\ kernel.a = 2 /\ kernel.r1 = 2 /\ kernel.r2 = 2

\* C4 as stated: for every semiring and every value a, add(a, a, s) = a.
C4_IdempotentAsStated ==
    kernel.pc = "idempotent" => kernel.r1 = kernel.a

\* C4 amended: add(a, a, s) = a for every value a of the four tropical semirings
\* and for a in {0, 1} of the Boolean semiring; for any other a, Boolean add(a, a)
\* is 1.
C4_Idempotent ==
    kernel.pc = "idempotent" =>
        IF kernel.s = PALMA_BOOLEAN /\ kernel.a \notin {0, 1}
        THEN kernel.r1 = 1
        ELSE kernel.r1 = kernel.a

\* Boolean 1 has been added to itself
C4_Witness ==
    /\ kernel.pc = "idempotent" /\ kernel.s = PALMA_BOOLEAN
    /\ kernel.a = 1 /\ kernel.r1 = 1

\* C5: distributivity, for every semiring and all values a, b, c:
\* mul(a, add(b, c, s), s) = add(mul(a, b, s), mul(a, c, s), s).
C5_Distributive ==
    kernel.pc = "distrib" => kernel.r1 = kernel.r2

\* both sides have been computed where one product saturates and the other does not
C5_Witness ==
    /\ kernel.pc = "distrib" /\ kernel.s = PALMA_MAXPLUS
    /\ kernel.a = PALMA_POS_INF - 1 /\ kernel.b = 2 /\ kernel.c = -2
    /\ kernel.r1 = PALMA_POS_INF

(***************************************************************************)
(* Reference graph theory for the matrix properties: the walks through     *)
(* pairwise distinct nodes of a graph of order n, the weight of a walk     *)
(* along the edges of a matrix, and the cycles closed by a last edge.      *)
(***************************************************************************)
Injective(f) == \A x, y \in DOMAIN f : x # y => f[x] # f[y]

\* every sequence of pairwise distinct nodes among 0 .. n-1
DistinctSeqs(n) ==
    UNION {{q \in [1 .. len -> 0 .. n - 1] : Injective(q)} : len \in 1 .. n}

RefMin(S) == CHOOSE m \in S : \A x \in S : m <= x
RefMax(S) == CHOOSE m \in S : \A x \in S : m >= x

\* Edge(u, v) is the entry that carries the edge u -> v; absent is the "no edge" entry
HasEdges(Edge(_, _), q, absent) ==
    \A k \in 1 .. Len(q) - 1 : Edge(q[k], q[k + 1]) # absent

RECURSIVE WalkSum(_, _, _)
WalkSum(Edge(_, _), q, k) ==
    IF k >= Len(q) THEN 0 ELSE Edge(q[k], q[k + 1]) + WalkSum(Edge, q, k + 1)

\* the closed walks: q followed by the edge from its last node back to its first
Cycles(Edge(_, _), n, absent) ==
    {q \in DistinctSeqs(n) :
        HasEdges(Edge, q, absent) /\ Edge(q[Len(q)], q[1]) # absent}

CycleSum(Edge(_, _), q) == WalkSum(Edge, q, 1) + Edge(q[Len(q)], q[1])

MatEq(X, Y) ==
    /\ X.rows = Y.rows /\ X.cols = Y.cols
    /\ \A i \in 0 .. X.rows - 1, j \in 0 .. X.cols - 1 :
          palma_matrix_get(X, i, j) = palma_matrix_get(Y, i, j)

\* the off-diagonal part of A under semiring s, as a graph: u -> v carries A[u][v]
OffDiag(A, s, u, v) == IF u = v THEN palma_zero(s) ELSE palma_matrix_get(A, u, v)

\* A is the weight matrix of an acyclic digraph under (min,+): every off-diagonal
\* entry is a finite weight or POS_INF, the diagonal holds POS_INF or the empty-path
\* distance 0, and no cycle runs along the edges
IsAcyclicMinPlus(A) ==
    /\ \A i \in 0 .. A.rows - 1, j \in 0 .. A.cols - 1 :
          IF i = j THEN palma_matrix_get(A, i, j) \in {PALMA_POS_INF, 0}
          ELSE palma_matrix_get(A, i, j) # PALMA_NEG_INF
    /\ LET E(u, v) == OffDiag(A, PALMA_MINPLUS, u, v)
       IN  Cycles(E, A.rows, PALMA_POS_INF) = {}

\* the minimum total weight over the directed paths from i to j
ShortestPathRef(A, i, j) ==
    LET E(u, v) == OffDiag(A, PALMA_MINPLUS, u, v)
        paths == {q \in DistinctSeqs(A.rows) :
                     q[1] = i /\ q[Len(q)] = j /\ HasEdges(E, q, PALMA_POS_INF)}
    IN  IF paths = {} THEN PALMA_POS_INF
        ELSE RefMin({WalkSum(E, q, 1) : q \in paths})

\* Scenario A: the chain 0 -> 1 (5), 1 -> 2 (3), 2 -> 3 (2) with a zero diagonal
ScenarioA ==
    [cols |-> 4,
     data |-> [p \in 0 .. 15 |->
                 CASE p \in {0, 5, 10, 15} -> 0
                   [] p = 1  -> 5
                   [] p = 6  -> 3
                   [] p = 11 -> 2
                   [] OTHER  -> PALMA_POS_INF],
     stride |-> 4,
     rows |-> 4]

ScenarioA_Closure == palma_matrix_closure(ScenarioA, PALMA_MINPLUS)

\* C6: for MinPlus and the weight matrix A of an acyclic digraph, closure(A)[i][j]
\* is the minimum total weight over the directed paths from i to j (0 for i = j,
\* POS_INF where j is unreachable); the chain of Scenario A has closure[0][3] = 10
\* and closure[3][0] = POS_INF.
C6_ShortestPaths ==
    /\ (dense.pc = "closed" /\ dense.s = PALMA_MINPLUS /\ IsAcyclicMinPlus(dense.A))
          => \A i \in 0 .. dense.A.rows - 1, j \in 0 .. dense.A.rows - 1 :
                palma_matrix_get(dense.D, i, j) = ShortestPathRef(dense.A, i, j)
    /\ dense.pc = "closed" =>
          /\ palma_matrix_get(ScenarioA_Closure, 0, 3) = 10
          /\ palma_matrix_get(ScenarioA_Closure, 3, 0) = PALMA_POS_INF

\* the closure of a three-node graph has been taken in which the two-edge path
\* 0 -> 2 -> 1 is shorter than the direct edge 0 -> 1
C6_Witness ==
    /\ dense.pc = "closed" /\ dense.s = PALMA_MINPLUS /\ dense.A.rows = 3
    /\ IsAcyclicMinPlus(dense.A)
    /\ palma_matrix_get(dense.A, 0, 1) = 3
    /\ palma_matrix_get(dense.A, 0, 2) = 0
    /\ palma_matrix_get(dense.A, 2, 1) = -2
    /\ palma_matrix_get(dense.D, 0, 1) = -2
    /\ palma_matrix_get(dense.D, 1, 0) = PALMA_POS_INF

\* C7 as stated: for every semiring and every square A,
\* closure(closure(A, s), s) = closure(A, s) element-wise.
C7_IdempotentAsStated ==
    dense.pc = "closed" => MatEq(dense.D2, dense.D)

Abs(v) == IF v < 0 THEN -v ELSE v

\* under an additive semiring: every entry of A is zero(s) or a finite value v with
\* 2 * n * |v| <= INT32_MAX (no sum along two paths leaves the 32-bit range), and
\* no cycle of A (self-loops included) gains by being walked, i.e. none has a
\* positive total weight under (max,+) or a negative one under (min,+)
NoImprovingCycle(A, s) ==
    /\ \A i \in 0 .. A.rows - 1, j \in 0 .. A.cols - 1 :
          \/ palma_matrix_get(A, i, j) = palma_zero(s)
          \/ /\ ~IsInf(palma_matrix_get(A, i, j))
             /\ Abs(palma_matrix_get(A, i, j)) <= PALMA_POS_INF \div (2 * A.rows)
    /\ LET E(u, v) == palma_matrix_get(A, u, v)
       IN  \A q \in Cycles(E, A.rows, palma_zero(s)) :
              IF s = PALMA_MAXPLUS THEN CycleSum(E, q) <= 0 ELSE CycleSum(E, q) >= 0

\* C7 amended: closure(closure(A, s), s) = closure(A, s) element-wise for every
\* square A under MaxMin, MinMax and Boolean, and under MaxPlus (MinPlus) for every
\* square A of order n whose entries are zero(s) or finite values v with
\* 2 * n * |v| <= INT32_MAX (so that no path weight saturates) and which has no
\* cycle of positive (negative) total weight.
C7_Idempotent ==
    (dense.pc = "closed" /\ (dense.s \in Additive => NoImprovingCycle(dense.A, dense.s)))
        => MatEq(dense.D2, dense.D)

\* the closure of a (max,+) matrix with a cycle of negative weight through all three
\* nodes has been taken twice
C7_Witness ==
    /\ dense.pc = "closed" /\ dense.s = PALMA_MAXPLUS /\ dense.A.rows = 3
    /\ palma_matrix_get(dense.A, 0, 1) = -2
    /\ palma_matrix_get(dense.A, 1, 2) = -2
    /\ palma_matrix_get(dense.A, 2, 0) = 3
    /\ palma_matrix_get(dense.D, 0, 2) = -4
    /\ palma_matrix_get(dense.D2, 0, 2) = -4

(***************************************************************************)
(* Reference for the spectral properties: the cycle means of a matrix.     *)
(***************************************************************************)
\* every entry of A is zero(s) or a finite value v with n * |v| <= INT32_MAX:
\* no weight of a walk of n edges leaves the 32-bit range
NothingSaturates(A, s) ==
    \A i \in 0 .. A.rows - 1, j \in 0 .. A.cols - 1 :
        \/ palma_matrix_get(A, i, j) = palma_zero(s)
        \/ /\ ~IsInf(palma_matrix_get(A, i, j))
           /\ Abs(palma_matrix_get(A, i, j)) <= PALMA_POS_INF \div A.rows

\* cycle weight / cycle length with the quotient truncated toward zero
RefTruncDiv(p, q) == IF p >= 0 THEN p \div q ELSE -((-p) \div q)

\* the maximum over the simple cycles of A of the truncated cycle mean, NEG_INF
\* when A has no cycle
MaxCycleMeanRef(A) ==
    LET E(u, v) == palma_matrix_get(A, u, v)
        cs == Cycles(E, A.rows, PALMA_NEG_INF)
    IN  IF cs = {} THEN PALMA_NEG_INF
        ELSE RefMax({RefTruncDiv(CycleSum(E, q), Len(q)) : q \in cs})

\* Scenario C: the 3-cycle A[1,0] = 5, A[2,1] = 3, A[0,2] = 4, all else NEG_INF
ScenarioC ==
    [cols |-> 3,
     data |-> [p \in 0 .. 11 |->
                 CASE p = 4 -> 5
                   [] p = 9 -> 3
                   [] p = 2 -> 4
                   [] OTHER -> PALMA_NEG_INF],
     stride |-> 4,
     rows |-> 3]

ScenarioC_Eigenvalue == palma_eigenvalue(ScenarioC, PALMA_MAXPLUS)

\* C8: for a square MaxPlus matrix A whose entries are NEG_INF or finite weights
\* small enough that nothing saturates, palma_eigenvalue(A, MAXPLUS) is the maximum
\* over the simple cycles of cycle weight / cycle length truncated toward zero, and
\* NEG_INF when A has no cycle; for the 3-cycle with weights 5, 3, 4 it is 4.
C8_MaxCycleMean ==
    /\ (spectral.pc = "eigenvalue" /\ spectral.s = PALMA_MAXPLUS
           /\ NothingSaturates(spectral.A, spectral.s))
          => spectral.lambda = MaxCycleMeanRef(spectral.A)
    /\ spectral.pc = "eigenvalue" => ScenarioC_Eigenvalue = 4

\* the eigenvalue of a 3-cycle of weight -1 has been computed: its mean -1/3
\* truncates to 0
C8_Witness ==
    /\ spectral.pc = "eigenvalue" /\ spectral.s = PALMA_MAXPLUS /\ spectral.A.rows = 3
    /\ palma_matrix_get(spectral.A, 0, 1) = -2
    /\ palma_matrix_get(spectral.A, 1, 2) = -2
    /\ palma_matrix_get(spectral.A, 2, 0) = 3
    /\ spectral.lambda = 0

\* C9: whenever palma_eigenvector returns PALMA_SUCCESS for a square MaxPlus or
\* MinPlus matrix A, the vector v and the eigenvalue lambda it returns satisfy
\* (A (x) v)[i] = v[i] + lambda for every i with v[i] # zero(s).
C9_EigenEquation ==
    (spectral.pc = "eigenvector" /\ spectral.ret = PALMA_SUCCESS
        /\ spectral.s \in Additive)
    => \A i \in 0 .. spectral.A.rows - 1 :
          spectral.vec[i] # palma_zero(spectral.s)
          => palma_matvec(spectral.A, spectral.vec, spectral.s)[i]
                = spectral.vec[i] + spectral.lambda

\* the iteration has converged for the eigenvalue 3 on a vector that is not the
\* starting vector: one component is finite and not e, another is zero(s)
C9_Witness ==
    /\ spectral.pc = "eigenvector" /\ spectral.ret = PALMA_SUCCESS
    /\ spectral.s = PALMA_MAXPLUS /\ spectral.lambda = 3
    /\ \E i \in 0 .. spectral.A.rows - 1 : spectral.vec[i] \notin {0, PALMA_NEG_INF}
    /\ \E i \in 0 .. spectral.A.rows - 1 : spectral.vec[i] = PALMA_NEG_INF

(***************************************************************************)
(* Reference for the scheduler properties: the constraint graph of a       *)
(* scheduler, from -> to carrying A[to][from], and its longest paths.      *)
(***************************************************************************)
\* no cycle runs along the constraints
IsAcyclicSched(S) ==
    LET E(u, v) == palma_matrix_get(S.system, v, u)
    IN  Cycles(E, S.n_tasks, PALMA_NEG_INF) = {}

\* the maximum over the tasks j with a ready time and over the constraint paths
\* from j to i of b[j] + the total duration of the path; NEG_INF when there is none
CompletionRef(S, i) ==
    LET E(u, v) == palma_matrix_get(S.system, v, u)
        paths == {q \in DistinctSeqs(S.n_tasks) :
                     /\ q[Len(q)] = i
                     /\ S.input[q[1]] # PALMA_NEG_INF
                     /\ HasEdges(E, q, PALMA_NEG_INF)}
    IN  IF paths = {} THEN PALMA_NEG_INF
        ELSE RefMax({S.input[q[1]] + WalkSum(E, q, 1) : q \in paths})

\* Scenario B: the boot schedule of six tasks, ready time 0 on task 0, solved
ScenarioB_Constraints ==
    << <<0, 1, 10>>, <<1, 2, 20>>, <<1, 3, 20>>, <<1, 4, 20>>,
       <<2, 5, 15>>, <<3, 5, 25>>, <<4, 5, 30>> >>

RECURSIVE ScenarioB_Build(_, _)
ScenarioB_Build(S, k) ==
    IF k > Len(ScenarioB_Constraints) THEN S
    ELSE ScenarioB_Build(
            palma_scheduler_add_constraint(S, ScenarioB_Constraints[k][1],
                ScenarioB_Constraints[k][2], ScenarioB_Constraints[k][3]).sched,
            k + 1)

ScenarioB ==
    palma_scheduler_solve(
        ScenarioB_Build(
            palma_scheduler_set_ready_time(palma_scheduler_create(6, TRUE), 0, 0).sched,
            1),
        0).sched

\* C10: on a MaxPlus scheduler whose constraints form an acyclic graph, after any
\* sequence of add_constraint, set_ready_time and solve calls, a final
\* palma_scheduler_solve(sched, 0) leaves x[i] = the maximum over the tasks j given a
\* ready time of b[j] + the longest constraint path from j to i, and x[i] = NEG_INF
\* when no such task reaches i; Scenario B gives x = [0, 10, 30, 30, 30, 60].
C10_FixedPoint ==
    /\ (sched.pc = "solve" /\ sched.max_iter = 0
           /\ sched.obj.semiring = PALMA_MAXPLUS /\ IsAcyclicSched(sched.obj))
          => \A i \in 0 .. sched.obj.n_tasks - 1 :
                palma_scheduler_get_completion(sched.obj, i) = CompletionRef(sched.obj, i)
    /\ sched.pc = "solve" =>
          ScenarioB.state = [i \in 0 .. 5 |-> <<0, 10, 30, 30, 30, 60>>[i + 1]]

\* a second solve, with max_iter = 0, has followed a first one and further calls:
\* task 2 is reached from task 0 (ready at 0) over 0 -> 1 -> 2 in 6 and from
\* task 1 (ready at 2) over 1 -> 2 in 5
C10_Witness ==
    /\ sched.pc = "solve" /\ sched.max_iter = 0 /\ sched.solves = 2
    /\ sched.obj.semiring = PALMA_MAXPLUS /\ sched.obj.n_tasks = 3
    /\ IsAcyclicSched(sched.obj)
    /\ palma_matrix_get(sched.obj.system, 1, 0) = 3
    /\ palma_matrix_get(sched.obj.system, 2, 1) = 3
    /\ sched.obj.input = [i \in 0 .. 2 |-> <<0, 2, PALMA_NEG_INF>>[i + 1]]
    /\ sched.obj.state = [i \in 0 .. 2 |-> <<0, 3, 6>>[i + 1]]

\* every constraint that has been added holds of the completion times:
\* x[to] >= x[from] (x) duration
ConstraintsHold(S, added) ==
    \A c \in added :
        palma_scheduler_get_completion(S, c[2])
            >= palma_mul(palma_scheduler_get_completion(S, c[1]), c[3], S.semiring)

\* C11 as stated: on a MaxPlus scheduler, after palma_scheduler_solve returns, for
\* any max_iter and any constraint graph, x[to] >= x[from] (x) duration for every
\* constraint added before the call.
C11_ConstraintsAsStated ==
    (sched.pc = "solve" /\ sched.obj.semiring = PALMA_MAXPLUS)
    => ConstraintsHold(sched.obj, sched.added)

\* C11: on a MaxPlus scheduler, after a palma_scheduler_solve that returned fewer
\* passes than it was allowed (a pass left x unchanged before the last one), and
\* after palma_scheduler_solve(sched, 0) on an acyclic constraint graph,
\* x[to] >= x[from] (x) duration for every constraint added before the call.
C11_ConstraintsHold ==
    (/\ sched.pc = "solve" /\ sched.obj.semiring = PALMA_MAXPLUS
     /\ \/ sched.ret < SolveIters(sched.obj, sched.max_iter)
        \/ sched.max_iter = 0 /\ IsAcyclicSched(sched.obj))
    => ConstraintsHold(sched.obj, sched.added)

\* solve(sched, 0) has returned after 3 of its 3 passes on the chain 0 -> 1 -> 2
\* with task 0 ready; 0 -> 1 carries the constraints of duration -2 and 3
C11_Witness ==
    /\ sched.pc = "solve" /\ sched.max_iter = 0 /\ sched.ret = 3
    /\ sched.obj.semiring = PALMA_MAXPLUS /\ sched.obj.n_tasks = 3
    /\ IsAcyclicSched(sched.obj)
    /\ {<<0, 1, -2>>, <<0, 1, 3>>, <<1, 2, 3>>} \subseteq sched.added
    /\ sched.obj.state[2] = 8

\* the cycles of the constraint graph whose total duration, hence mean, is positive
PositiveCycles(S) ==
    LET E(u, v) == palma_matrix_get(S.system, v, u)
    IN  {q \in Cycles(E, S.n_tasks, PALMA_NEG_INF) : CycleSum(E, q) > 0}

\* a constraint path leads from a task that was given a ready time to task i
ReachedFromReady(S, i) ==
    LET E(u, v) == palma_matrix_get(S.system, v, u)
    IN  \E q \in DistinctSeqs(S.n_tasks) :
           /\ q[Len(q)] = i
           /\ S.input[q[1]] # palma_zero(S.semiring)
           /\ HasEdges(E, q, palma_zero(S.semiring))

\* C12 as stated: if the constraint graph of a MaxPlus scheduler contains a cycle of
\* positive mean, palma_scheduler_solve(sched, 0) detects no convergence within its
\* n_tasks passes and returns n_tasks without setting an error.
C12_NoConvergenceAsStated ==
    (/\ sched.pc = "solve" /\ sched.max_iter = 0
     /\ sched.obj.semiring = PALMA_MAXPLUS
     /\ PositiveCycles(sched.obj) # {})
    => /\ sched.ret = sched.obj.n_tasks
       /\ SolveStep(sched.obj, sched.obj.state) # sched.obj.state
       /\ g_last_error = PALMA_SUCCESS

\* C12: if the constraint graph of a MaxPlus scheduler contains a cycle of positive
\* mean that a constraint path reaches from a task with a ready time, then
\* palma_scheduler_solve(sched, 0) detects no convergence within its n_tasks passes
\* (x is still no fixed point after them) and returns n_tasks without setting an error.
C12_NoConvergence ==
    (/\ sched.pc = "solve" /\ sched.max_iter = 0
     /\ sched.obj.semiring = PALMA_MAXPLUS
     /\ \E q \in PositiveCycles(sched.obj) : ReachedFromReady(sched.obj, q[1]))
    => /\ sched.ret = sched.obj.n_tasks
       /\ SolveStep(sched.obj, sched.obj.state) # sched.obj.state
       /\ g_last_error = PALMA_SUCCESS

\* solve(sched, 0) has made its 3 passes on the cycle 0 -> 1 -> 2 -> 0 of total
\* duration 3 + 3 - 2 = 4 with task 0 ready at 0: x[0] has grown to 4
C12_Witness ==
    /\ sched.pc = "solve" /\ sched.max_iter = 0 /\ sched.solves = 1
    /\ sched.obj.semiring = PALMA_MAXPLUS /\ sched.obj.n_tasks = 3
    /\ palma_matrix_get(sched.obj.system, 1, 0) = 3
    /\ palma_matrix_get(sched.obj.system, 2, 1) = 3
    /\ palma_matrix_get(sched.obj.system, 0, 2) = -2
    /\ sched.obj.input = [i \in 0 .. 2 |-> <<0, PALMA_NEG_INF, PALMA_NEG_INF>>[i + 1]]
    /\ sched.obj.state = [i \in 0 .. 2 |-> <<4, 3, 6>>[i + 1]]
    /\ sched.ret = 3

\* the cycles of A that pass through node i
CyclesThrough(A, i) ==
    LET E(u, v) == palma_matrix_get(A, u, v)
    IN  {q \in Cycles(E, A.rows, PALMA_NEG_INF) : \E k \in 1 .. Len(q) : q[k] = i}

\* every cycle through node i has a mean strictly below lambda
AllCyclesBelow(A, i, lambda) ==
    LET E(u, v) == palma_matrix_get(A, u, v)
    IN  \A q \in CyclesThrough(A, i) : CycleSum(E, q) < lambda * Len(q)

\* Scenario D: the 2-cycles 0 <-> 1 of weights 3, 5 and 0 <-> 2 of weights 2, 4
ScenarioD ==
    [cols |-> 3,
     data |-> [p \in 0 .. 11 |->
                 CASE p = 4 -> 3
                   [] p = 1 -> 5
                   [] p = 8 -> 2
                   [] p = 2 -> 4
                   [] OTHER -> PALMA_NEG_INF],
     stride |-> 4,
     rows |-> 3]

ScenarioD_Critical == palma_critical_nodes(ScenarioD, PALMA_MAXPLUS)

\* C13: palma_critical_nodes marks no node all of whose cycles have a mean strictly
\* below the eigenvalue lambda; for the MaxPlus matrix of Scenario D (lambda = 4) it
\* marks nodes 0 and 1, leaves node 2 unmarked and returns 2.
C13_CriticalNodes ==
    /\ (spectral.pc = "critical_nodes" /\ spectral.s = PALMA_MAXPLUS)
          => \A i \in 0 .. spectral.A.rows - 1 :
                AllCyclesBelow(spectral.A, i, palma_eigenvalue(spectral.A, spectral.s))
                => spectral.critical_nodes[i] = 0
    /\ spectral.pc = "critical_nodes" =>
          /\ palma_eigenvalue(ScenarioD, PALMA_MAXPLUS) = 4
          /\ ScenarioD_Critical.critical_nodes = [i \in 0 .. 2 |-> <<1, 1, 0>>[i + 1]]
          /\ ScenarioD_Critical.ret = 2

(***************************************************************************)
(* The CSR structure of a sparse matrix.                                   *)
(***************************************************************************)
CsrInvariant(sp) ==
    /\ sp.row_ptr[0] = 0
    /\ \A r \in 0 .. sp.rows - 1 : sp.row_ptr[r] <= sp.row_ptr[r + 1]
    /\ sp.row_ptr[sp.rows] = sp.nnz
    /\ sp.nnz <= sp.capacity
    /\ \A k \in 0 .. sp.nnz - 1 : sp.col_idx[k] < sp.cols
    /\ \A r \in 0 .. sp.rows - 1 :
          \A k \in sp.row_ptr[r] .. sp.row_ptr[r + 1] - 2 :
             sp.col_idx[k] < sp.col_idx[k + 1]

\* C14: every sparse matrix reached from palma_sparse_create or
\* palma_sparse_from_dense by palma_sparse_set, palma_sparse_add_entry and
\* palma_sparse_compress calls has row_ptr[0] = 0, a non-decreasing row_ptr,
\* row_ptr[rows] = nnz, nnz <= capacity, every stored column index below cols and
\* col_idx strictly ascending within each row.
C14_CsrInvariant ==
    SparseLive => CsrInvariant(sparse.sp)

\* a matrix created with capacity 1 that has grown to capacity 4 by three
\* insertions, one of them of zero(s), and was then
\* compressed to the two cells left
C14_Witness ==
    /\ sparse.pc = "compress"
    /\ sparse.sp.rows = 2
    /\ sparse.sp.capacity = 4
    /\ sparse.sp.nnz = 2
    /\ sparse.sp.row_ptr[1] = 1
    /\ sparse.sp.col_idx[0] = 1
    /\ sparse.sp.col_idx[1] = 0

\* C15: for every sparse S, palma_sparse_from_dense(palma_sparse_to_dense(S),
\* S.semiring) has the nnz, row_ptr, col_idx and values of S after
\* palma_sparse_compress, which holds no stored zero(s); and for every dense M,
\* palma_sparse_to_dense(palma_sparse_from_dense(M, s)) equals M element-wise.
C15_RoundTrip ==
    /\ sparse.pc = "round_trip" =>
          /\ sparse.S2.nnz = sparse.C.nnz
          /\ sparse.S2.row_ptr = sparse.C.row_ptr
          /\ \A k \in 0 .. sparse.C.nnz - 1 :
                /\ sparse.S2.col_idx[k] = sparse.C.col_idx[k]
                /\ sparse.S2.values[k] = sparse.C.values[k]
                /\ sparse.C.values[k] # palma_zero(sparse.s)
    /\ sparse.pc = "to_dense" => MatEq(sparse.D, sparse.M)

\* a round trip of a 2 x 2 matrix with three stored cells, one of them zero(s) in
\* row 0, of which the compressed copy and the rebuilt matrix keep two
C15_Witness ==
    /\ sparse.pc = "round_trip"
    /\ sparse.sp.rows = 2
    /\ sparse.sp.nnz = 3
    /\ sparse.sp.row_ptr[1] = 2
    /\ sparse.C.nnz = 2
    /\ sparse.C.row_ptr[1] = 1
    /\ sparse.S2.nnz = 2

\* C16: for every sparse S over any of the five semirings and every vector x,
\* palma_sparse_matvec(S, x) equals palma_matvec(palma_sparse_to_dense(S), x,
\* S.semiring) element-wise.
C16_SparseDenseMatvec ==
    sparse.pc = "matvec" =>
       \A i \in 0 .. sparse.sp.rows - 1 : sparse.y[i] = sparse.y_dense[i]

\* adj is a (min,+) adjacency matrix: a zero diagonal, off it a finite weight or
\* POS_INF, and no cycle of negative total weight
IsMinPlusGraph(adj) ==
    /\ \A i \in 0 .. adj.rows - 1, j \in 0 .. adj.cols - 1 :
          IF i = j THEN palma_matrix_get(adj, i, j) = 0
          ELSE palma_matrix_get(adj, i, j) # PALMA_NEG_INF
    /\ LET E(u, v) == OffDiag(adj, PALMA_MINPLUS, u, v)
       IN  \A q \in Cycles(E, adj.rows, PALMA_POS_INF) : CycleSum(E, q) >= 0

\* C17: for MinPlus, every such adjacency matrix adj (adj[i][j] the weight of the
\* edge i -> j) and every source src, palma_single_source_paths writes
\* dist[v] = the shortest-path distance from src to v, which is
\* palma_all_pairs_paths(adj, MINPLUS)[src][v], for every v.
C17_SingleSource ==
    (/\ dense.pc = "single_source" /\ dense.s = PALMA_MINPLUS
     /\ dense.ret = PALMA_SUCCESS /\ IsMinPlusGraph(dense.A))
       => \A v \in 0 .. dense.A.rows - 1 :
             /\ dense.dist[v] = palma_matrix_get(dense.D, dense.source, v)
             /\ dense.dist[v] = ShortestPathRef(dense.A, dense.source, v)

\* the largest, over the directed paths from i to j along entries other than
\* NEG_INF, of the smallest capacity on the path
BottleneckRef(A, i, j) ==
    LET E(u, v) == IF u = v THEN PALMA_NEG_INF ELSE palma_matrix_get(A, u, v)
        paths == {q \in DistinctSeqs(A.rows) :
                     q[1] = i /\ q[Len(q)] = j /\ HasEdges(E, q, PALMA_NEG_INF)}
    IN  IF i = j THEN PALMA_POS_INF
        ELSE IF paths = {} THEN PALMA_NEG_INF
        ELSE RefMax({RefMin({E(q[k], q[k + 1]) : k \in 1 .. Len(q) - 1}) : q \in paths})

\* the line 0 - 1 - 2 with capacity 100 between 0 and 1 and 20 between 1 and 2
ScenarioLine ==
    [cols |-> 3,
     data |-> [p \in 0 .. 11 |->
                 CASE p \in {1, 4} -> 100
                   [] p \in {6, 9} -> 20
                   [] OTHER        -> PALMA_NEG_INF],
     stride |-> 4,
     rows |-> 3]

ScenarioLine_Bottleneck == palma_bottleneck_paths(ScenarioLine)

\* C18: for every square capacity matrix A (NEG_INF where no edge),
\* palma_bottleneck_paths(A)[i][j] is the maximum over the directed paths from i to
\* j of the minimum edge capacity on the path, POS_INF for i = j and NEG_INF where
\* j is unreachable from i; the line of capacities 100 and 20 has [0][2] = 20.
C18_Bottleneck ==
    dense.pc = "bottleneck" =>
       /\ \A i \in 0 .. dense.A.rows - 1, j \in 0 .. dense.A.rows - 1 :
             palma_matrix_get(dense.D, i, j) = BottleneckRef(dense.A, i, j)
       /\ palma_matrix_get(ScenarioLine_Bottleneck, 0, 2) = 20

\* a three-node network in which the two-hop route 0 -> 1 -> 2 of capacity 3 beats
\* the direct link of capacity -2, and nothing leads back from 2
C18_Witness ==
    /\ dense.pc = "bottleneck" /\ dense.A.rows = 3
    /\ palma_matrix_get(dense.A, 0, 1) = 3
    /\ palma_matrix_get(dense.A, 1, 2) = 3
    /\ palma_matrix_get(dense.A, 0, 2) = -2
    /\ palma_matrix_get(dense.D, 0, 2) = 3
    /\ palma_matrix_get(dense.D, 2, 0) = PALMA_NEG_INF
    /\ palma_matrix_get(dense.D, 1, 1) = PALMA_POS_INF

\* i = j, or a directed path leads from i to j along off-diagonal entries that are
\* neither NEG_INF nor POS_INF
ReachRef(adj, i, j) ==
    \/ i = j
    \/ \E q \in DistinctSeqs(adj.rows) :
          /\ q[1] = i /\ q[Len(q)] = j
          /\ \A k \in 1 .. Len(q) - 1 :
                palma_matrix_get(adj, q[k], q[k + 1]) \notin {PALMA_NEG_INF, PALMA_POS_INF}

ScenarioA_Reach == palma_reachability(ScenarioA)

C21_SpectrumUndefined ==
    (spectral.pc = "eigenvalue" /\ spectral.s \notin Additive)
       => /\ spectral.lambda = PALMA_NEG_INF
          /\ g_last_error = PALMA_ERR_UNSUPPORTED

(***************************************************************************)
(* C22.  Last-error protocol of the handle-returning operations.           *)
(***************************************************************************)
ApiDimOps == {"matrix_create", "matrix_create_zero", "matrix_create_identity",
              "matrix_wrap", "sparse_create", "scheduler_create"}
ApiSquareOps == {"matrix_power", "matrix_closure", "matrix_transitive_closure",
                 "reachability", "bottleneck_paths"}
ApiBinaryOps == {"matrix_add", "matrix_mul", "sparse_mul"}

\* the kinds of failure the arguments of the recorded call give rise to
ApiCauses(c) ==
    (IF c.oom THEN {PALMA_ERR_OUT_OF_MEMORY} ELSE {})
    \cup (IF c.op \in ApiDimOps /\ (c.rows = 0 \/ c.cols = 0)
          THEN {PALMA_ERR_INVALID_DIM} ELSE {})
    \cup (IF (c.op = "matrix_wrap" \/ c.op \notin ApiDimOps) /\ c.A = <<0, 0>>
          THEN {PALMA_ERR_NULL_PTR} ELSE {})
    \cup (IF c.op \in ApiBinaryOps /\ c.B = <<0, 0>>
          THEN {PALMA_ERR_NULL_PTR} ELSE {})
    \cup (IF c.op \in ApiSquareOps /\ c.A[1] # c.A[2]
          THEN {PALMA_ERR_NOT_SQUARE} ELSE {})
    \cup (IF /\ c.op = "matrix_add"
             /\ c.A # <<0, 0>> /\ c.B # <<0, 0>> /\ c.A # c.B
          THEN {PALMA_ERR_INVALID_DIM} ELSE {})
    \cup (IF /\ c.op \in {"matrix_mul", "sparse_mul"}
             /\ c.A # <<0, 0>> /\ c.B # <<0, 0>> /\ c.A[2] # c.B[1]
          THEN {PALMA_ERR_INVALID_DIM} ELSE {})

\* C22: every handle-returning call returns null exactly when its arguments
\* give a cause of failure, the slot then holds the kind of one of the actual
\* causes (out of memory only when an allocation failed), and after a
\* success the slot holds PALMA_SUCCESS.
C22_LastErrorProtocol ==
    api.op # "none"
       => IF ApiCauses(api) = {}
          THEN ~api.h.null /\ g_last_error = PALMA_SUCCESS
          ELSE api.h.null /\ g_last_error \in ApiCauses(api)

(***************************************************************************)
(* C23.  Clone is deep; destroy frees a buffer only through its owner.     *)
(***************************************************************************)
HeapElements(mat) ==
    [c \in HeapGrid |-> heap_matrix_get(heap.buffers, mat, c[1], c[2])]

\* C23: the clone has the shape and, when made, the elements of A (also of a
\* wrapped view with stride > cols), owns a buffer of its own, a set through
\* one handle never changes the elements seen through the other, destroying
\* the clone does not free A's buffer and destroying a wrapped view does not
\* free the wrapped buffer.
C23_CloneDeep ==
    /\ heap.stB # "none"
          => /\ heap.B.rows = heap.A.rows /\ heap.B.cols = heap.A.cols
             /\ heap.B.owns_data
             /\ heap.B.data # heap.A.data
    /\ heap.pc = "clone" => HeapElements(heap.B) = HeapElements(heap.A)
    /\ heap.stA = "live"
          => ~heap.buffers[heap.A.data].freed /\ HeapElements(heap.A) = heap.expA
    /\ heap.stB = "live"
          => ~heap.buffers[heap.B.data].freed /\ HeapElements(heap.B) = heap.expB
    /\ ~heap.A.owns_data
          => ~heap.buffers[heap.A.data].freed /\ HeapElements(heap.A) = heap.expA

\* a wrapped view with stride > cols was cloned, the two were written apart,
\* and the clone was destroyed while the view is still in use
C23_Witness ==
    /\ heap.pc = "destroyB"
    /\ ~heap.A.owns_data /\ heap.A.stride > heap.A.cols
    /\ heap.stA = "live"
    /\ heap.sets = MaxSets
    /\ heap.expA # heap.expB

(***************************************************************************)
(* C24.  The critical path of a solved scheduler.                          *)
(***************************************************************************)
\* p is a predecessor of q on a critical chain: x[q] = x[p] (x) A[q][p] over an edge
CriticalStep(S, p, q) ==
    /\ palma_matrix_get(S.system, q, p) # palma_zero(S.semiring)
    /\ S.state[q] = palma_mul(S.state[p], palma_matrix_get(S.system, q, p), S.semiring)

ScenarioB_Path == palma_scheduler_critical_path(ScenarioB, 6)

\* C24: for a solved scheduler and max_len >= 1 the call returns the number of
\* entries written, at most max_len and n_tasks; the chain written ends at a
\* task with maximal x, also when max_len cut it short; every consecutive pair
\* (p, q) has x[q] = x[p] (x) A[q][p] with p the smallest such index; and
\* Scenario B gives [0, 1, 4, 5].
C24_CriticalPath ==
    /\ (sched.pc = "critical_path" /\ sched.max_len >= 1)
          => /\ sched.ret = Len(sched.path)
             /\ sched.ret >= 1 /\ sched.ret <= sched.max_len
             /\ sched.ret <= sched.obj.n_tasks
             /\ \A i \in 0 .. sched.obj.n_tasks - 1 :
                   sched.obj.state[sched.path[Len(sched.path)]] >= sched.obj.state[i]
             /\ \A m \in 1 .. Len(sched.path) - 1 :
                   /\ CriticalStep(sched.obj, sched.path[m], sched.path[m + 1])
                   /\ \A p \in 0 .. sched.path[m] - 1 :
                         ~CriticalStep(sched.obj, p, sched.path[m + 1])
    /\ sched.pc = "critical_path"
          => /\ ScenarioB_Path.ret = 4
             /\ ScenarioB_Path.path = <<0, 1, 4, 5>>

(***************************************************************************)
(* C25.  The per-thread error slot is the only state shared between calls. *)
(***************************************************************************)
\* C25: two threads working on distinct handles never write the same memory
\* object, and palma_get_last_error returns to a thread the kind that this
\* thread stored last, never one stored by the other thread.
C25_ThreadLocalOnly ==
    /\ threads.wrote[1] \cap threads.wrote[2] = {}
    /\ \A t \in Threads :
          threads.pc[t] = "get_last_error" => threads.seen[t] = threads.own[t]

\* the two halves in a build with thread-local storage
C25_SlotIsPerThread ==
    threads.tls
       => /\ threads.wrote[1] \cap threads.wrote[2] \subseteq {<<"config", 0>>}
          /\ \A t \in Threads :
                threads.pc[t] = "get_last_error" => threads.seen[t] = threads.own[t]

(***************************************************************************)
(* C26.  The iterative routines are bounded by max_iter.                   *)
(***************************************************************************)
\* the limit of the call: n_tasks resp. 1000 stand in for max_iter = 0
LoopLimit ==
    IF loop.arg # 0 THEN loop.arg
    ELSE IF loop.kind = "solve" THEN loop.S.n_tasks ELSE PALMA_DEFAULT_MAX_ITER

C26_Returned ==
    loop.pc = "returned"
       => IF loop.kind = "solve"
          THEN /\ 1 <= loop.ret /\ loop.ret <= LoopLimit
               /\ loop.ret = loop.steps
               /\ ~loop.hit => loop.ret = LoopLimit
               /\ loop.out = loop.last
               /\ g_last_error = PALMA_SUCCESS
          ELSE IF loop.lambda = PALMA_NEG_INF
          THEN /\ loop.ret = PALMA_ERR_NOT_CONVERGED
               /\ loop.steps = 0
               /\ \A i \in DOMAIN loop.out : loop.out[i] = palma_zero(loop.s)
          ELSE /\ loop.hit => loop.ret = PALMA_SUCCESS
               /\ ~loop.hit => /\ loop.ret = PALMA_ERR_NOT_CONVERGED
                               /\ loop.steps = LoopLimit
               /\ loop.out = loop.last

\* the call taken pass by pass ends as the call taken as a whole (compared for
\* the calls of up to two passes of palma_eigenvector)
C26_AsWhole ==
    loop.pc = "returned"
       => IF loop.kind = "solve"
          THEN LET r == palma_scheduler_solve(loop.S, loop.arg)
               IN  r.ret = loop.ret /\ r.sched.state = loop.out
          ELSE loop.arg # 0
                  => LET r == palma_eigenvector(loop.A, loop.s, loop.arg)
                     IN  r.ret = loop.ret /\ r.vec = loop.out /\ r.lambda = loop.lambda

\* a pass that left the vector as it was is the last pass of the call
C26_Bounded ==
    /\ loop.steps <= LoopLimit
    /\ loop.iter = loop.steps
    /\ loop.hit => loop.pc = "returned"

\* C26: palma_scheduler_solve makes at most max_iter passes (n_tasks for
\* max_iter = 0) and palma_eigenvector at most max_iter matrix-vector steps
\* (1000 for max_iter = 0), and every call returns; solve returns the number k,
\* 1 <= k <= max_iter, of the first pass that left x equal to prev, max_iter if
\* there is none; eigenvector returns NOT_CONVERGED with the last iterate when
\* no step gave y = x and NOT_CONVERGED with an all-zero(s) vector when
\* lambda = NEG_INF.
C26_BoundedIteration ==
    /\ [](C26_Bounded /\ C26_Returned /\ C26_AsWhole)
    /\ (loop.pc = "loop") ~> (loop.pc = "returned")

\* an eigenvector call with max_iter = 0 has made all of its 1000 steps
\* without a step giving y = x, and a solve call has returned before its limit
C26_Witness ==
    /\ loop.pc = "returned"
    /\ loop.kind = "eigenvector" /\ loop.arg = 0
    /\ loop.steps = PALMA_DEFAULT_MAX_ITER /\ ~loop.hit
    /\ loop.ret = PALMA_ERR_NOT_CONVERGED


(***************************************************************************)
(* Matrix powers: a square matrix filled cell by cell with finite values,  *)
(* values whose sums saturate, and both infinities, then raised to a power *)
(* by palma_matrix_power.                                                  *)
(***************************************************************************)
MaxExp == 5

PowerOrders == {1, 2}

\* a finite value large enough that the sum of two of them leaves the int32 range
PowerLarge == (PALMA_POS_INF \div 2) + 1

PowerVals(s) ==
    CASE s = PALMA_MAXPLUS -> {-2, 3, PowerLarge, -PowerLarge, PALMA_NEG_INF, PALMA_POS_INF}
      [] s = PALMA_MINPLUS -> {-2, 3, PowerLarge, -PowerLarge, PALMA_NEG_INF, PALMA_POS_INF}
      [] s = PALMA_MAXMIN  -> {-2, 3, PALMA_NEG_INF, PALMA_POS_INF}
      [] s = PALMA_MINMAX  -> {-2, 3, PALMA_NEG_INF, PALMA_POS_INF}
      [] s = PALMA_BOOLEAN -> {0, 1, 3}

InitPower ==
    /\ \E n \in PowerOrders, s \in Semirings :
          dense = [s |-> s,
                   n |-> 0,
                   A |-> palma_matrix_create_zero(n, n, s),
                   pc |-> "build",
                   P |-> palma_matrix_create_zero(n, n, s)]
    /\ kernel = Idle
    /\ spectral = Idle
    /\ sched = Idle
    /\ sparse = Idle
    /\ api = Idle
    /\ heap = Idle
    /\ threads = Idle
    /\ loop = Idle
    /\ g_last_error = PALMA_SUCCESS

\* palma_matrix_set(A, i, j, v) while the matrix is being filled
PowerSet(i, j, v) ==
    /\ dense.pc = "build"
    /\ i < dense.A.rows /\ j < dense.A.cols
    /\ palma_matrix_get(dense.A, i, j) # v
    /\ dense' = [dense EXCEPT !.A = palma_matrix_set(dense.A, i, j, v)]
    /\ UNCHANGED <<DenseRest, g_last_error>>

\* P = palma_matrix_power(A, n, s)
MatrixPowerCall(n) ==
    /\ dense.pc = "build"
    /\ dense' = [dense EXCEPT !.pc = "power", !.n = n,
                              !.P = palma_matrix_power(dense.A, n, dense.s)]
    /\ g_last_error' = PALMA_SUCCESS    \* palma_clear_error in palma_matrix_create
    /\ UNCHANGED DenseRest

NextPower ==
    \/ \E i \in 0 .. 1, j \in 0 .. 1 : \E v \in PowerVals(dense.s) : PowerSet(i, j, v)
    \/ \E n \in 0 .. MaxExp : MatrixPowerCall(n)

SpecPower == InitPower /\ [][NextPower]_vars

\* the product ((A (x) A) (x) A) ... (x) A of n factors, n >= 1, built by n - 1
\* successive palma_matrix_mul calls
RECURSIVE NFoldProduct(_, _, _)
NFoldProduct(A, n, s) ==
    IF n <= 1 THEN A ELSE palma_matrix_mul(NFoldProduct(A, n - 1, s), A, s)

C27_PowerZero ==
    (dense.pc = "power" /\ dense.n = 0)
        => MatEq(dense.P, palma_matrix_create_identity(dense.A.rows, dense.s))

C27_PowerOne ==
    (dense.pc = "power" /\ dense.n = 1) => MatEq(dense.P, dense.A)

C27_PowerFold ==
    (dense.pc = "power" /\ dense.n >= 2)
        => MatEq(dense.P, NFoldProduct(dense.A, dense.n, dense.s))

\* C27: palma_matrix_power(A, 0, s) is the identity matrix, palma_matrix_power(A, 1, s)
\* equals A, and for n >= 2 palma_matrix_power(A, n, s) equals the n-fold product
\* ((A (x) A) (x) A) ... (x) A of n - 1 successive palma_matrix_mul calls, also for
\* entries that are infinite or whose products saturate
C27_MatrixPower == C27_PowerZero /\ C27_PowerOne /\ C27_PowerFold

\* the effect of err = palma_sparse_set(sp, row, col, val) taking sp to sp2: with
\* in-range indices the call succeeds, the cell reads back val, every other cell
\* reads as before, and nnz stays if the cell was stored and grows by one if not;
\* with an index out of range the call returns PALMA_ERR_INDEX_BOUNDS and sp2 = sp
SparseSetEffect(sp, sp2, err, row, col, val) ==
    IF row < sp.rows /\ col < sp.cols
    THEN /\ err = PALMA_SUCCESS
         /\ palma_sparse_get(sp2, row, col) = val
         /\ \A i \in 0 .. sp.rows - 1, j \in 0 .. sp.cols - 1 :
               (<<i, j>> # <<row, col>>)
                  => palma_sparse_get(sp2, i, j) = palma_sparse_get(sp, i, j)
         /\ sp2.nnz = IF SparseNoInsert(sp, row, col) THEN sp.nnz ELSE sp.nnz + 1
         /\ sp2.rows = sp.rows /\ sp2.cols = sp.cols
    ELSE /\ err = PALMA_ERR_INDEX_BOUNDS
         /\ sp2 = sp

(***************************************************************************)
(* palma_sparse_set call by call: a matrix made by palma_sparse_create or  *)
(* palma_sparse_from_dense receives palma_sparse_set calls with indices in *)
(* and out of range; the record keeps the matrix before the last call      *)
(* (prev) and the arguments of the call.                                   *)
(***************************************************************************)
SetCall(pc, s, sp, prev, row, col, val, ret) ==
    [s |-> s,
     row |-> row,
     col |-> col,
     val |-> val,
     prev |-> prev,
     ret |-> ret,
     sp |-> sp,
     pc |-> pc]

InitSparseSet ==
    /\ \E shape \in SparseShapes, s \in Semirings :
          \/ \E capacity \in SparseCapacities :
                sparse = SetCall("create", s,
                            palma_sparse_create(shape[1], shape[2], capacity, s),
                            NoObject, 0, 0, 0, PALMA_SUCCESS)
          \/ \E M \in DenseInputs(shape[1], shape[2], s) :
                sparse = SetCall("from_dense", s, palma_sparse_from_dense(M, s),
                            NoObject, 0, 0, 0, PALMA_SUCCESS)
    /\ kernel = Idle
    /\ dense = Idle
    /\ spectral = Idle
    /\ sched = Idle
    /\ api = Idle
    /\ heap = Idle
    /\ threads = Idle
    /\ loop = Idle
    /\ g_last_error = PALMA_SUCCESS

\* err = palma_sparse_set(sp, row, col, val)
SparseSetCall(row, col, val) ==
    /\ IF sparse.sp.nnz < MaxNnz THEN TRUE ELSE SparseNoInsert(sparse.sp, row, col)
    /\ LET r == palma_sparse_set(sparse.sp, row, col, val)
       IN  /\ sparse' = SetCall("set", sparse.s, r.sp, sparse.sp, row, col, val, r.ret)
           /\ g_last_error' = IF r.ret = PALMA_SUCCESS THEN g_last_error ELSE r.ret
    /\ UNCHANGED SparseRest

NextSparseSet ==
    \E row \in 0 .. 2, col \in 0 .. 3, val \in SparseVals(sparse.s) :
       SparseSetCall(row, col, val)

SpecSparseSet == InitSparseSet /\ [][NextSparseSet]_vars

\* C28: after a successful palma_sparse_set(S, i, j, v) with in-range indices,
\* palma_sparse_get(S, i, j) = v, palma_sparse_get at every other position is
\* unchanged, and nnz is unchanged if (i, j) was already stored and larger by
\* exactly 1 otherwise, also when v = zero(s); a call with an out-of-range index
\* returns PALMA_ERR_INDEX_BOUNDS and changes nothing
C28_SetGetFrame ==
    (sparse.pc = "set")
       => /\ SparseSetEffect(sparse.prev, sparse.sp, sparse.ret,
                             sparse.row, sparse.col, sparse.val)
          /\ (sparse.ret # PALMA_SUCCESS) => g_last_error = sparse.ret

\* zero(s) set into a cell that was not stored, in front of two stored cells
C28_Witness ==
    /\ sparse.pc = "set" /\ sparse.ret = PALMA_SUCCESS
    /\ sparse.val = palma_zero(sparse.s)
    /\ ~SparseNoInsert(sparse.prev, sparse.row, sparse.col)
    /\ sparse.prev.nnz = 2 /\ sparse.sp.nnz = 3
    /\ sparse.sp.col_idx[0] = sparse.col /\ sparse.sp.values[0] = sparse.val
    /\ sparse.sp.values[1] # palma_zero(sparse.s)

\* a call with the column out of range on a matrix that holds stored cells
C28_WitnessBounds ==
    /\ sparse.pc = "set" /\ sparse.ret = PALMA_ERR_INDEX_BOUNDS
    /\ sparse.col >= sparse.sp.cols /\ sparse.row < sparse.sp.rows
    /\ sparse.sp.nnz > 0


(***************************************************************************)
(* The NEON variants.  A row of A and a vector b (a column of B, or x) are *)
(* combined four lanes at a time: vaddq_s32 adds lane by lane modulo 2^32, *)
(* vmaxq_s32 / vminq_s32 keep the lane-wise maximum / minimum.  The lanes  *)
(* are then folded by palma_add and the remaining cells are taken by the   *)
(* scalar statements.                                                      *)
(***************************************************************************)
NeonLanes == 0 .. 3

\* for (; k + 4 <= A->cols; k += 4): acc is the four-lane accumulator
RECURSIVE NeonBlocks(_, _, _, _, _, _)
NeonBlocks(A, b, i, k, acc, s) ==
    IF k + 4 > A.cols THEN [k |-> k, acc |-> acc]
    ELSE NeonBlocks(A, b, i, k + 4,
            [p \in NeonLanes |->
                LET prod == WrapSum(A.data[i * A.stride + k + p], b[k + p])
                IN  IF s = PALMA_MAXPLUS
                    THEN (IF acc[p] > prod THEN acc[p] ELSE prod)
                    ELSE (IF acc[p] < prod THEN acc[p] ELSE prod)],
            s)

\* for (; k < A->cols; k++) result = palma_add(result, palma_mul(a_ik, b_k))
RECURSIVE NeonTail(_, _, _, _, _, _)
NeonTail(A, b, i, k, result, s) ==
    IF k >= A.cols THEN result
    ELSE NeonTail(A, b, i, k + 1,
                  palma_add(result, palma_mul(palma_matrix_get(A, i, k), b[k], s), s), s)

\* one cell of the result: the blocks, the fold of the four lanes, the tail
NeonCell(A, b, i, s) ==
    LET blocks == NeonBlocks(A, b, i, 0, [p \in NeonLanes |-> palma_zero(s)], s)
        acc    == blocks.acc
        folded == palma_add(palma_add(palma_add(acc[0], acc[1], s), acc[2], s), acc[3], s)
    IN  NeonTail(A, b, i, blocks.k, folded, s)

palma_matrix_mul_neon(A, B, s) ==
    IF s \notin Additive THEN palma_matrix_mul(A, B, s)
    ELSE LET C == palma_matrix_create(A.rows, B.cols)
         IN  [C EXCEPT !.data = [p \in DOMAIN C.data |->
                 IF p % C.stride < C.cols
                 THEN NeonCell(A, [k \in 0 .. B.rows - 1 |->
                                      palma_matrix_get(B, k, p % C.stride)],
                               p \div C.stride, s)
                 ELSE C.data[p]]]

palma_matvec_neon(A, x, s) ==
    IF s \notin Additive THEN [i \in 0 .. A.rows - 1 |-> MatvecRow(A, x, i, 0, palma_zero(s), s)]
    ELSE [i \in 0 .. A.rows - 1 |-> NeonCell(A, x, i, s)]

(***************************************************************************)
(* The variants side by side: a row A of k cells and a column B of k       *)
(* cells, filled cell by cell, then multiplied by the NEON variants and by *)
(* the scalar loops; x is the column B taken as a vector.                  *)
(***************************************************************************)
NeonWidths == {2, 4}

NeonVals(s) ==
    IF s \in Additive THEN {-2, PowerLarge, PALMA_NEG_INF, PALMA_POS_INF}
    ELSE IF s = PALMA_BOOLEAN THEN {0, 1}
    ELSE {-2, 3, palma_zero(s)}

InitNeon ==
    /\ \E k \in NeonWidths, s \in Semirings :
          dense = [s |-> s,
                   A |-> palma_matrix_create_zero(1, k, s),
                   y |-> NoObject,
                   B |-> palma_matrix_create_zero(k, 1, s),
                   C |-> NoObject,
                   pc |-> "build",
                   C_neon |-> NoObject,
                   y_neon |-> NoObject]
    /\ kernel = Idle
    /\ spectral = Idle
    /\ sched = Idle
    /\ sparse = Idle
    /\ api = Idle
    /\ heap = Idle
    /\ threads = Idle
    /\ loop = Idle
    /\ g_last_error = PALMA_SUCCESS

\* palma_matrix_set(A, 0, j, v)
NeonSetA(j, v) ==
    /\ dense.pc = "build"
    /\ j < dense.A.cols
    /\ palma_matrix_get(dense.A, 0, j) # v
    /\ dense' = [dense EXCEPT !.A = palma_matrix_set(dense.A, 0, j, v)]
    /\ UNCHANGED <<DenseRest, g_last_error>>

\* palma_matrix_set(B, j, 0, v)
NeonSetB(j, v) ==
    /\ dense.pc = "build"
    /\ j < dense.B.rows
    /\ palma_matrix_get(dense.B, j, 0) # v
    /\ dense' = [dense EXCEPT !.B = palma_matrix_set(dense.B, j, 0, v)]
    /\ UNCHANGED <<DenseRest, g_last_error>>

\* palma_matrix_mul_neon(C_neon, A, B, s); palma_matrix_mul_into(C, A, B, s);
\* palma_matvec_neon(A, x, y_neon, s); the scalar loop of palma_matvec into y
NeonMultiply ==
    /\ dense.pc = "build"
    /\ LET x == [k \in 0 .. dense.B.rows - 1 |-> palma_matrix_get(dense.B, k, 0)]
       IN  dense' = [dense EXCEPT !.pc = "multiply",
                        !.C      = palma_matrix_mul(dense.A, dense.B, dense.s),
                        !.C_neon = palma_matrix_mul_neon(dense.A, dense.B, dense.s),
                        !.y      = palma_matvec(dense.A, x, dense.s),
                        !.y_neon = palma_matvec_neon(dense.A, x, dense.s)]
    /\ UNCHANGED <<DenseRest, g_last_error>>

NextNeon ==
    \/ \E j \in NeonLanes : \E v \in NeonVals(dense.s) : NeonSetA(j, v)
    \/ \E j \in NeonLanes : \E v \in NeonVals(dense.s) : NeonSetB(j, v)
    \/ NeonMultiply

SpecNeon == InitNeon /\ [][NextNeon]_vars

C29_MulSame == (dense.pc = "multiply") => MatEq(dense.C_neon, dense.C)

C29_MatvecSame == (dense.pc = "multiply") => dense.y_neon = dense.y

\* C29: for MaxPlus and MinPlus and all inputs, including zero(s) and infinite
\* entries and operand pairs whose sum leaves the 32-bit range,
\* palma_matrix_mul_neon produces the same C as the scalar palma_matrix_mul_into
\* and palma_matvec_neon the same y as the scalar matrix-vector loop
C29_NeonSameAsScalar == C29_MulSame /\ C29_MatvecSame

\* x[i] (+) b[i] = x[i] for every task i of a MaxPlus scheduler
C30_StateDominatesInput ==
    (sched.obj.semiring = PALMA_MAXPLUS)
       => \A i \in 0 .. sched.obj.n_tasks - 1 :
             palma_add(sched.obj.state[i], sched.obj.input[i], PALMA_MAXPLUS)
                = sched.obj.state[i]

\* a step of a MaxPlus scheduler lowers no x[i], no b[i] and no A[i][j]
C30_NothingLowered ==
    (sched.obj.semiring = PALMA_MAXPLUS)
       => /\ \A i \in 0 .. sched.obj.n_tasks - 1 :
                /\ sched'.obj.state[i] >= sched.obj.state[i]
                /\ sched'.obj.input[i] >= sched.obj.input[i]
          /\ \A i \in 0 .. sched.obj.n_tasks - 1, j \in 0 .. sched.obj.n_tasks - 1 :
                palma_matrix_get(sched'.obj.system, i, j)
                   >= palma_matrix_get(sched.obj.system, i, j)

\* a call with a task index out of range returns PALMA_ERR_INDEX_BOUNDS and leaves
\* the scheduler as it was; a call with its indices in range returns PALMA_SUCCESS
C30_IndexBounds ==
    /\ \A p \in Precedences, duration \in Durations :
          (sched'.pc = "add_constraint" /\ SchedAddConstraint(p[1], p[2], duration))
             => IF p[1] >= sched.obj.n_tasks \/ p[2] >= sched.obj.n_tasks
                THEN sched'.ret = PALMA_ERR_INDEX_BOUNDS /\ sched'.obj = sched.obj
                ELSE sched'.ret = PALMA_SUCCESS
    /\ \A task \in Sources, ready_time \in ReadyTimes :
          (sched'.pc = "set_ready_time" /\ SchedSetReadyTime(task, ready_time))
             => IF task >= sched.obj.n_tasks
                THEN sched'.ret = PALMA_ERR_INDEX_BOUNDS /\ sched'.obj = sched.obj
                ELSE sched'.ret = PALMA_SUCCESS

\* C30: in every state of a MaxPlus scheduler reachable by palma_scheduler_add_constraint,
\* palma_scheduler_set_ready_time and palma_scheduler_solve calls, x[i] (+) b[i] = x[i]
\* for every task i, no call lowers any x[i], b[i] or A[i][j], and a call with an
\* out-of-range task index returns PALMA_ERR_INDEX_BOUNDS and leaves A, x and b unchanged
C30_SchedulerMonotone ==
    /\ []C30_StateDominatesInput
    /\ [][C30_NothingLowered /\ C30_IndexBounds]_vars

\* a MaxPlus scheduler of three tasks after its second solve, in which a completion
\* time lies above a ready time that was set, and a state after an out-of-range call
C30_Witness ==
    /\ sched.pc = "solve" /\ sched.solves = MaxSolves
    /\ sched.obj.semiring = PALMA_MAXPLUS /\ sched.obj.n_tasks = 3
    /\ \E i \in 0 .. 2 :
          /\ sched.obj.input[i] # PALMA_NEG_INF
          /\ sched.obj.state[i] > sched.obj.input[i]
    /\ \E i \in 0 .. 2 :
          sched.obj.input[i] = PALMA_NEG_INF /\ sched.obj.state[i] # PALMA_NEG_INF

\* a MaxPlus scheduler of one task after a call naming task 1
C30_WitnessBounds ==
    /\ sched.pc \in {"add_constraint", "set_ready_time"}
    /\ sched.ret = PALMA_ERR_INDEX_BOUNDS
    /\ sched.obj.semiring = PALMA_MAXPLUS
    /\ sched.obj.input[0] # PALMA_NEG_INF
=============================================================================
